---------------------------- MODULE Spec2Model ----------------------------
(***************************************************************************)
(* GigMoney Guru: the agent orchestration core.                            *)
(*                                                                         *)
(*   - ToolExecutor (backend/app/agents/tools.py): the tool catalogue, the *)
(*     call log and the handlers that read and mutate the Session State.   *)
(*   - ReActAgent.run (backend/app/agents/react_agent.py): the control     *)
(*     loop that asks the oracle for the next step and executes the tools  *)
(*     it requests.                                                        *)
(*   - EnhancedReActAgent (backend/app/agents/enhanced_react_agent.py):    *)
(*     the execution loop with reflection, and the debate phase.           *)
(*                                                                         *)
(* Python dicts are functions with a finite domain of string keys: a key   *)
(* that is absent from the dict is absent from the DOMAIN.  The oracle,    *)
(* the persistence layer and the caller are the environment: what they     *)
(* answer is chosen with \E from small sets.                               *)
(***************************************************************************)
EXTENDS Integers, Sequences, FiniteSets, TLC

VARIABLES
    mode,                \* which entry point drives the run: "exec", "react", "enhanced"
    user_id,             \* ToolExecutor.user_id ("" is None)
    state,               \* the Session State dict, shared by reference
    db,                  \* the collections of the user: buckets (name -> current_balance)
                         \* and decisions (the agent_decisions documents, oldest first)
    tool_calls_log,      \* ToolExecutor.tool_calls_log
    tools_called_count,  \* ToolExecutor.tools_called_count
    result,              \* the dict returned by the last tool call
    raised,              \* the exception that left the last call or the run ("" is none)
    pc,                  \* position of the run
    iteration,           \* loop local: oracle turns taken
    analysis_complete,   \* loop local
    tool_call_count,     \* loop local
    pending,             \* message.tool_calls not yet executed in this turn
    turn_msgs,           \* the messages appended to the conversation in this turn
    reflections,         \* Enhanced loop local
    unexpected_findings, \* Enhanced loop local
    completed_steps,     \* Enhanced loop local: the tool names
    proposed_recommendation, \* Enhanced loop local ("" is None)
    debate,              \* locals of _run_debate
    last_revision_check, \* Enhanced loop: the tool_call_count at the last call of
                         \* _revise_plan_if_needed (0: not called yet)
    odd,                 \* environment: answers so far that were not the routine one
    runs                 \* the concurrent executors of one owner: for each its
                         \* Session State and the locals of its call in flight;
                         \* for an endpoint, the requests handled so far

vars == <<mode, user_id, state, db, tool_calls_log, tools_called_count, result,
          raised, pc, iteration, analysis_complete, tool_call_count, pending,
          turn_msgs, reflections, unexpected_findings, completed_steps,
          proposed_recommendation, debate, last_revision_check, odd, runs>>

loopVars == <<pc, iteration, analysis_complete, tool_call_count, pending, turn_msgs>>
enhancedVars == <<reflections, unexpected_findings, completed_steps,
                  proposed_recommendation, debate, last_revision_check>>

-----------------------------------------------------------------------------
(* Bounds of the model *)

\* Direct driver: ToolExecutor.execute calls per executor.
\* Control loops: the tool calls of a run in which the oracle varies the tool.
MaxCalls == 5
\* Answers of the environment in one run that are not the routine one (the
\* routine ones: a request for the plain balance read, a final message once
\* enough tools were called, a reflection that finds nothing, no decision in
\* the ledger, a plan from the planner, a failed debate request).
MaxOdd == 1
\* Tool calls the oracle requests in one turn.
MaxBatch == 2

(* Program constants *)
ReactMaxIterations == 15
EnhancedMaxIterations == 20
MinToolCalls == 5
CompletionMinTools == 5
MinInsightLength == 30
DefaultConfidenceScore == 70
DefaultDays == 7
DecisionLimit == 10
LearningWindow == 14
UndatedDaysAgo == 999
DefaultDaysRemaining == 30
DefaultDailyIncome == 500

-----------------------------------------------------------------------------
(* Python dict helpers *)

EmptyDict == <<>>
Get(d, k, default) == IF k \in DOMAIN d THEN d[k] ELSE default
Put(d, k, v) == [f \in DOMAIN d \cup {k} |-> IF f = k THEN v ELSE d[f]]

RECURSIVE SumOver(_, _)
SumOver(d, keys) ==
    IF keys = {} THEN 0
    ELSE LET k == CHOOSE x \in keys : TRUE
         IN  d[k] + SumOver(d, keys \ {k})
SumValues(d) == SumOver(d, DOMAIN d)

\* What a handler leaves behind: the state, the collection, and either the
\* returned dict or the exception it raised.
Returns(st, d, res) == [state |-> st, db |-> d, result |-> res, exc |-> ""]
Raises(st, d, e) == [state |-> st, db |-> d, result |-> EmptyDict, exc |-> e]


-----------------------------------------------------------------------------
(* ToolExecutor: the handlers.  Each takes the executor (self: the state   *)
(* dict, the user id, the call counter, the Bucket collection), the        *)
(* arguments dict, and what the persistence layer does during the call.    *)
(*                                                                         *)
(* An argument of the wrong JSON type is written as the key k_str in place *)
(* of k: "amount_str" is an amount that is a string.                       *)

Self(st, d, uid, cnt) == [state |-> st, db |-> d, user_id |-> uid, tools_called_count |-> cnt]

get_bucket_balances(self, args, env) ==
    LET balances == Get(self.state, "bucket_balances", EmptyDict)
    IN  Returns(self.state, self.db,
                [buckets |-> balances, total |-> SumValues(balances)])

\* Variant: the allocation is recorded but the balance is left as it was.
allocate_to_bucket_Unapplied(self, args, env) ==
    Returns(Put(self.state, "allocations_made",
                Append(Get(self.state, "allocations_made", <<>>),
                       [bucket |-> Get(args, "bucket_name", "None"),
                        amount |-> Get(args, "amount", 0)])),
            self.db,
            [success |-> TRUE, bucket |-> Get(args, "bucket_name", "None"),
             allocated |-> Get(args, "amount", 0)])

\* Variant: an allocation identical to one already made is not applied again.
allocate_to_bucket_Dedup(self, args, env) ==
    LET entry == [bucket |-> Get(args, "bucket_name", "None"), amount |-> Get(args, "amount", 0)]
        made == Get(self.state, "allocations_made", <<>>)
        current == Get(Get(self.state, "bucket_balances", EmptyDict), entry.bucket, 0)
    IN  IF \E i \in DOMAIN made : made[i] = entry
        THEN Returns(self.state, self.db,
                     [success |-> TRUE, bucket |-> entry.bucket,
                      new_balance |-> current, allocated |-> 0])
        ELSE Returns(Put(Put(self.state, "bucket_balances",
                             Put(Get(self.state, "bucket_balances", EmptyDict),
                                 entry.bucket, current + entry.amount)),
                         "allocations_made", Append(made, entry)),
                     self.db,
                     [success |-> TRUE, bucket |-> entry.bucket,
                      new_balance |-> current + entry.amount, allocated |-> entry.amount])

allocate_to_bucket(self, args, env) ==
    LET bucket_name == Get(args, "bucket_name", "None")
        st1 == IF "bucket_balances" \in DOMAIN self.state
               THEN self.state
               ELSE Put(self.state, "bucket_balances", EmptyDict)
    IN  IF "amount_str" \in DOMAIN args
        THEN Raises(st1, self.db, "TypeError")
        ELSE LET amount == Get(args, "amount", 0)
                 current == Get(st1["bucket_balances"], bucket_name, 0)
                 st2 == Put(st1, "bucket_balances",
                            Put(st1["bucket_balances"], bucket_name, current + amount))
                 st3 == IF "allocations_made" \in DOMAIN st2
                        THEN st2
                        ELSE Put(st2, "allocations_made", <<>>)
                 st4 == Put(st3, "allocations_made",
                            Append(st3["allocations_made"],
                                   [bucket |-> bucket_name, amount |-> amount]))
             IN  Returns(st4, self.db,
                         [success |-> TRUE, bucket |-> bucket_name,
                          new_balance |-> st4["bucket_balances"][bucket_name],
                          allocated |-> amount])

\* Variant: the completion has no gate on the number of calls.
complete_analysis_Ungated(self, args, env) ==
    Returns(Put(Put(self.state, "analysis_complete", TRUE),
                "key_insight", Get(args, "key_insight", "")),
            self.db,
            [complete |-> TRUE, insight |-> Get(args, "key_insight", ""),
             tools_used |-> self.tools_called_count])

\* Variant: the completion has no test of the insight's length.
complete_analysis_AnyInsight(self, args, env) ==
    IF self.tools_called_count < CompletionMinTools
    THEN Returns(self.state, self.db,
                 [error |-> "NOT ENOUGH ANALYSIS",
                  tools_called |-> self.tools_called_count])
    ELSE Returns(Put(Put(Put(self.state, "key_insight", Get(args, "key_insight", "")),
                         "analysis_complete", TRUE),
                     "tools_used", self.tools_called_count),
                 self.db,
                 [complete |-> TRUE, insight |-> Get(args, "key_insight", ""),
                  tools_used |-> self.tools_called_count])

complete_analysis(self, args, env) ==
    IF self.tools_called_count < CompletionMinTools
    THEN Returns(self.state, self.db,
                 [error |-> "NOT ENOUGH ANALYSIS",
                  tools_called |-> self.tools_called_count,
                  suggestion |-> "Call get_bucket_balances first"])
    ELSE LET safe_to_spend == Get(args, "safe_to_spend", 0)
             key_insight == Get(args, "key_insight", "")
             recommended_action == Get(args, "recommended_action", "")
             confidence_score == Get(args, "confidence_score", DefaultConfidenceScore)
         IN  IF Len(key_insight) < MinInsightLength
             THEN Returns(self.state, self.db,
                          [error |-> "Key insight is too short",
                           example |-> "Aapka rent ka 8000 due hai"])
             ELSE Returns(
                     Put(Put(Put(Put(Put(Put(self.state,
                         "safe_to_spend", safe_to_spend),
                         "key_insight", key_insight),
                         "recommended_action", recommended_action),
                         "confidence_score", confidence_score),
                         "analysis_complete", TRUE),
                         "tools_used", self.tools_called_count),
                     self.db,
                     [complete |-> TRUE, safe_to_spend |-> safe_to_spend,
                      insight |-> key_insight, action |-> recommended_action,
                      confidence |-> confidence_score,
                      tools_used |-> self.tools_called_count])

\* Variant: a failure of the persistence layer leaves the handler.
update_bucket_balance_persistent_Unguarded(self, args, env) ==
    IF env = "raise"
    THEN Raises(self.state, self.db, "PersistenceError")
    ELSE Returns(self.state, self.db,
                 [success |-> TRUE, bucket |-> Get(args, "bucket_name", "None"),
                  change |-> 0, persisted_to_db |-> TRUE])

\* env: "ok", or "raise" when Bucket.find_one or bucket.save raises.
update_bucket_balance_persistent(self, args, env) ==
    LET bucket_name == Get(args, "bucket_name", "None")
        st1 == IF "bucket_balances" \in DOMAIN self.state
               THEN self.state
               ELSE Put(self.state, "bucket_balances", EmptyDict)
    IN  IF "amount_str" \in DOMAIN args
        THEN Raises(st1, self.db, "TypeError")
        ELSE LET amount == Get(args, "amount", 0)
                 current == Get(st1["bucket_balances"], bucket_name, 0)
                 new_balance == current + amount
                 st2 == Put(st1, "bucket_balances",
                            Put(st1["bucket_balances"], bucket_name, new_balance))
                 persisted == /\ self.user_id # ""
                              /\ env = "ok"
                              /\ bucket_name \in DOMAIN self.db.buckets
                 d2 == IF persisted
                       THEN [self.db EXCEPT !.buckets =
                                Put(@, bucket_name, @[bucket_name] + amount)]
                       ELSE self.db
                 st3 == IF "bucket_changes" \in DOMAIN st2
                        THEN st2
                        ELSE Put(st2, "bucket_changes", <<>>)
                 st4 == Put(st3, "bucket_changes",
                            Append(st3["bucket_changes"],
                                   [bucket |-> bucket_name, change |-> amount,
                                    new_balance |-> new_balance, persisted |-> persisted]))
             IN  Returns(st4, d2,
                         [success |-> TRUE, bucket |-> bucket_name,
                          previous_balance |-> current, change |-> amount,
                          new_balance |-> new_balance, persisted_to_db |-> persisted])

Reverse(s) == [i \in 1..Len(s) |-> s[Len(s) + 1 - i]]
FirstN(s, n) == SubSeq(s, 1, IF Len(s) < n THEN Len(s) ELSE n)
LastN(s, n) == SubSeq(s, IF Len(s) < n THEN 1 ELSE Len(s) - n + 1, Len(s))

\* AgentDecision.find(query).sort("-created_at").limit(10): the documents of
\* the user not older than days, of the type when one is asked for, newest first.
FindDecisions(ledger, days, decision_type) ==
    LET Matches(d) == /\ d.age <= days
                      /\ decision_type \in {"None", ""} \/ d.type = decision_type
    IN  FirstN(Reverse(SelectSeq(ledger, Matches)), DecisionLimit)

\* The fallback of _get_past_decisions: the session's own list.
SessionMemory(st) ==
    LET past == Get(st, "past_decisions", <<>>)
    IN  [decisions |-> LastN(past, DecisionLimit), count |-> Len(past),
         memory_active |-> FALSE, note |-> "Using session memory"]

\* Variant: the ledger query is not guarded.
get_past_decisions_Unguarded(self, args, env) ==
    IF env = "raise" \/ "days_str" \in DOMAIN args
    THEN Raises(self.state, self.db, "PersistenceError")
    ELSE Returns(self.state, self.db,
                 [decisions |-> <<>>, count |-> 0, memory_active |-> self.user_id # ""])

\* env: "ok", or "raise" when AgentDecision.find raises.
get_past_decisions(self, args, env) ==
    IF self.user_id # "" /\ env = "ok" /\ "days_str" \notin DOMAIN args
    THEN LET decisions == FindDecisions(self.db.decisions, Get(args, "days", DefaultDays),
                                        Get(args, "decision_type", "None"))
         IN  Returns(self.state, self.db,
                     [decisions |-> [i \in 1..Len(decisions) |->
                                        [type |-> decisions[i].type,
                                         value |-> decisions[i].value,
                                         agent |-> decisions[i].agent,
                                         date |-> decisions[i].age]],
                      count |-> Len(decisions), memory_active |-> TRUE])
    ELSE Returns(self.state, self.db, SessionMemory(self.state))

\* env: "ok", or "raise" when db_decision.insert raises.
save_decision(self, args, env) ==
    LET decision_type == Get(args, "decision_type", "None")
        decision_value == Get(args, "decision_value", "None")
        record == [type |-> decision_type, value |-> decision_value,
                   reasoning |-> Get(args, "reasoning", "None"),
                   impact |-> Get(args, "impact_amount", 0)]
        decision_record == IF self.user_id = "" THEN record
                           ELSE Put(record, "persisted", env = "ok")
        d2 == IF self.user_id # "" /\ env = "ok"
              THEN [self.db EXCEPT !.decisions =
                       Append(@, [type |-> decision_type, value |-> decision_value,
                                  agent |-> "react_agent", age |-> 0])]
              ELSE self.db
        st1 == IF "decisions_made" \in DOMAIN self.state
               THEN self.state
               ELSE Put(self.state, "decisions_made", <<>>)
    IN  Returns(Put(st1, "decisions_made", Append(st1["decisions_made"], decision_record)),
                d2,
                [saved |-> TRUE, decision |-> decision_record])

\* Python's None as a dict value, and the test for it.
NoneValue == [None |-> TRUE]
IsNone(v) == "None" \in DOMAIN v

\* round(n / d) for d > 0: Python rounds a tie to the even neighbour.
RoundHalfEven(n, d) ==
    LET q == n \div d
        r == n % d
    IN  IF 2 * r < d THEN q
        ELSE IF 2 * r > d THEN q + 1
        ELSE IF q % 2 = 0 THEN q ELSE q + 1

\* An expense of expense_history.  The handler reads exp.get("date"): an
\* entry without it counts as 999 days old.  date is (now - exp_date).days of
\* a date that parses; date_str is a date that does not parse.
DaysAgo(exp) == IF "date" \in DOMAIN exp THEN exp["date"] ELSE UndatedDaysAgo

RECURSIVE TotalAmount(_)
TotalAmount(expenses) ==
    IF expenses = <<>> THEN 0
    ELSE Get(Head(expenses), "amount", 0) + TotalAmount(Tail(expenses))

\* current_by_cat / comparison_by_cat: the sums by category, and the
\* categories in the order the dict received them.
RECURSIVE ByCategory(_)
ByCategory(expenses) ==
    IF expenses = <<>> THEN EmptyDict
    ELSE LET rest == ByCategory(Tail(expenses))
             cat == Get(Head(expenses), "category", "other")
         IN  Put(rest, cat, Get(rest, cat, 0) + Get(Head(expenses), "amount", 0))

RECURSIVE CategoriesInOrder(_)
CategoriesInOrder(expenses) ==
    IF expenses = <<>> THEN <<>>
    ELSE LET cat == Get(Head(expenses), "category", "other")
         IN  <<cat>> \o SelectSeq(CategoriesInOrder(Tail(expenses)), LAMBDA c : c # cat)

\* change_percent, trend and insight of the result are left out.
analyze_spending_pattern(self, args, env) ==
    LET category == Get(args, "category", "all")
        comparison_days == Get(args, "comparison_days", DefaultDays)
        Counted(e) == /\ "date_str" \notin DOMAIN e
                      /\ category = "all" \/ Get(e, "category", "other") = category
        counted == SelectSeq(Get(self.state, "expense_history", <<>>), Counted)
        current == SelectSeq(counted, LAMBDA e : DaysAgo(e) < comparison_days)
        comparison == SelectSeq(counted, LAMBDA e : /\ DaysAgo(e) >= comparison_days
                                                    /\ DaysAgo(e) < comparison_days * 2)
        current_by_cat == ByCategory(current)
        comparison_by_cat == ByCategory(comparison)
        Anomalous(cat) == LET prev == Get(comparison_by_cat, cat, 0)
                          IN  prev > 0 /\ 2 * current_by_cat[cat] > 3 * prev
        flagged == SelectSeq(CategoriesInOrder(current), Anomalous)
    IN  Returns(self.state, self.db,
                [period_days |-> comparison_days,
                 current_spend |-> TotalAmount(current),
                 previous_spend |-> TotalAmount(comparison),
                 by_category |-> current_by_cat,
                 anomalies |-> [i \in DOMAIN flagged |->
                                  [category |-> flagged[i],
                                   current |-> current_by_cat[flagged[i]],
                                   previous |-> comparison_by_cat[flagged[i]],
                                   increase_pct |->
                                      RoundHalfEven((current_by_cat[flagged[i]]
                                                       - comparison_by_cat[flagged[i]]) * 100,
                                                    comparison_by_cat[flagged[i]])]]])

\* One entry of the results list of _calculate_goal_trajectory.
\* target_in_days is (target_date - now).days, absent when the goal has no
\* target_date.  "daily_needed < avg_daily_income * 0.3" in tenths.
\* progress_percent, weekly_savings_needed and recommendation are left out.
GoalTrajectory(goal, avg_daily_income) ==
    LET target == Get(goal, "target_amount", 0)
        current == Get(goal, "current_amount", 0)
        remaining == target - current
        days_remaining == Get(goal, "target_in_days", DefaultDaysRemaining)
        days == IF days_remaining > 1 THEN days_remaining ELSE 1
    IN  [name |-> Get(goal, "name", "None"), target |-> target, current |-> current,
         remaining |-> remaining, days_left |-> days_remaining,
         daily_savings_needed |-> RoundHalfEven(remaining, days),
         on_track |-> 10 * remaining < 3 * avg_daily_income * days]

\* state.get("income_patterns", {}) is None in the context the loader builds
\* until the income analysis has run: None.get raises AttributeError.
calculate_goal_trajectory(self, args, env) ==
    LET goal_name == Get(args, "goal_name", "all")
        goals == SelectSeq(Get(self.state, "goals", <<>>),
                           LAMBDA g : goal_name = "all" \/ Get(g, "name", "None") = goal_name)
        income_patterns == Get(self.state, "income_patterns", EmptyDict)
    IN  IF goals # <<>> /\ IsNone(income_patterns)
        THEN Raises(self.state, self.db, "AttributeError")
        ELSE LET results == [i \in DOMAIN goals |->
                               GoalTrajectory(goals[i],
                                              Get(income_patterns, "weekday_average",
                                                  DefaultDailyIncome))]
             IN  Returns(self.state, self.db,
                         [goals_analyzed |-> Len(results), trajectories |-> results,
                          all_on_track |-> \A i \in DOMAIN results : results[i].on_track])

\* The risk level recorded for an obligation: that of the first risk entry
\* that names it, "low" when none does.
RiskOf(risks, name) ==
    LET hits == SelectSeq(risks, LAMBDA r : Get(r, "obligation_name", "None") = name)
    IN  IF hits = <<>> THEN "low" ELSE Get(hits[1], "risk_level", "None")

get_upcoming_obligations(self, args, env) ==
    LET obligations == Get(self.state, "obligations", <<>>)
        obligation_risks == Get(self.state, "obligation_risks", <<>>)
    IN  Returns(self.state, self.db,
                [obligations |->
                     [i \in DOMAIN obligations |->
                         [name |-> Get(obligations[i], "name", "None"),
                          amount |-> Get(obligations[i], "amount", 0),
                          risk |-> RiskOf(obligation_risks,
                                          Get(obligations[i], "name", "None"))]],
                 total_monthly |-> TotalAmount(obligations)])

\* income_patterns is None in the context the loader builds: None.get raises.
get_income_history(self, args, env) ==
    LET income_history == Get(self.state, "income_history", <<>>)
        income_patterns == Get(self.state, "income_patterns", EmptyDict)
    IN  IF IsNone(income_patterns)
        THEN Raises(self.state, self.db, "AttributeError")
        ELSE Returns(self.state, self.db,
                     [recent_income |-> LastN(income_history, 10),
                      weekday_average |-> Get(income_patterns, "weekday_average", 0),
                      weekend_average |-> Get(income_patterns, "weekend_average", 0),
                      trend |-> Get(income_patterns, "trend_direction", "flat"),
                      today_income |-> Get(self.state, "today_income", 0)])

get_expense_history(self, args, env) ==
    LET expense_history == Get(self.state, "expense_history", <<>>)
        by_category == ByCategory(expense_history)
    IN  Returns(self.state, self.db,
                [recent_expenses |-> LastN(expense_history, 10),
                 by_category |-> by_category,
                 total |-> SumValues(by_category)])

calculate_shortfall(self, args, env) ==
    LET short == SelectSeq(Get(self.state, "obligation_risks", <<>>),
                           LAMBDA r : Get(r, "shortfall_amount", 0) > 0)
        shortfalls == [i \in DOMAIN short |->
                          [obligation |-> Get(short[i], "obligation_name", "None"),
                           shortfall |-> short[i]["shortfall_amount"],
                           risk_level |-> Get(short[i], "risk_level", "None")]]
        total_shortfall == TotalAmount([i \in DOMAIN short |->
                                           [amount |-> short[i]["shortfall_amount"]]])
    IN  Returns(self.state, self.db,
                [has_shortfall |-> total_shortfall > 0,
                 total_shortfall |-> total_shortfall, shortfalls |-> shortfalls])

\* progress is in tenths of a percent: round(current / max(target, 1) * 100, 1).
get_goals_progress(self, args, env) ==
    LET goals == Get(self.state, "goals", <<>>)
    IN  Returns(self.state, self.db,
                [goals |->
                    [i \in DOMAIN goals |->
                        LET target == Get(goals[i], "target_amount", 1)
                        IN  [name |-> Get(goals[i], "name", "None"),
                             target |-> Get(goals[i], "target_amount", 0),
                             current |-> Get(goals[i], "current_amount", 0),
                             progress |-> RoundHalfEven(
                                             1000 * Get(goals[i], "current_amount", 0),
                                             IF target > 1 THEN target ELSE 1)]]])

\* Variant: the projection of extra income is written to the balances.
simulate_scenario_Applied(self, args, env) ==
    LET balances == Get(self.state, "bucket_balances", EmptyDict)
    IN  Returns(Put(self.state, "bucket_balances",
                    Put(balances, "flex", Get(balances, "flex", 0) + Get(args, "amount", 0))),
                self.db,
                [scenario |-> Get(args, "scenario_type", "None"),
                 projected_balance |-> SumValues(balances) + Get(args, "amount", 0)])

\* buffer_days_gained is in tenths of a day: round(amount / avg_daily, 1).
simulate_scenario(self, args, env) ==
    LET scenario_type == Get(args, "scenario_type", "None")
        amount == Get(args, "amount", 0)
        days == Get(args, "days", DefaultDays)
        income_patterns == Get(self.state, "income_patterns", EmptyDict)
        total_balance == SumValues(Get(self.state, "bucket_balances", EmptyDict))
    IN  IF IsNone(income_patterns)
        THEN Raises(self.state, self.db, "AttributeError")
        ELSE LET avg_daily == Get(income_patterns, "weekday_average", DefaultDailyIncome)
             IN  Returns(self.state, self.db,
                    CASE scenario_type = "extra_income" ->
                           [scenario |-> scenario_type, amount |-> amount,
                            current_balance |-> total_balance,
                            projected_balance |-> total_balance + amount,
                            buffer_days_gained |->
                                IF avg_daily > 0 THEN RoundHalfEven(10 * amount, avg_daily)
                                ELSE 0]
                      [] scenario_type = "unexpected_expense" ->
                           [scenario |-> scenario_type, amount |-> amount,
                            current_balance |-> total_balance,
                            projected_balance |-> total_balance - amount,
                            can_cover |-> total_balance - amount >= 0,
                            shortfall |-> IF amount > total_balance
                                          THEN amount - total_balance ELSE 0]
                      [] scenario_type = "skip_work" ->
                           [scenario |-> scenario_type, days |-> days,
                            income_loss |-> avg_daily * days,
                            current_balance |-> total_balance,
                            projected_balance |-> total_balance - avg_daily * days,
                            affordable |-> total_balance - avg_daily * days > 0]
                      [] scenario_type = "advance_repayment" ->
                           [scenario |-> scenario_type, repayment_amount |-> amount,
                            current_balance |-> total_balance,
                            after_repayment |-> total_balance - amount,
                            safe_to_repay |-> total_balance - amount > avg_daily * 3]
                      [] OTHER -> [error |-> "Unknown scenario type: " \o scenario_type])

\* The names of the handlers dict (those of the tools this model holds).
ToolCatalogue ==
    {"get_bucket_balances", "allocate_to_bucket", "complete_analysis",
     "update_bucket_balance_persistent", "get_past_decisions", "save_decision",
     "analyze_spending_pattern", "calculate_goal_trajectory",
     "get_upcoming_obligations", "get_income_history", "get_expense_history",
     "calculate_shortfall", "get_goals_progress", "simulate_scenario"}

\* Variant: a name that is not in the catalogue raises.
Dispatch_Strict(tool_name, self, args, env) ==
    IF tool_name \in ToolCatalogue
    THEN get_bucket_balances(self, args, env)
    ELSE Raises(self.state, self.db, "KeyError")

\* handlers.get(tool_name) of ToolExecutor.execute: the handler of a name in the
\* catalogue, or the error dict of a name that is not.
Dispatch(tool_name, self, args, env) ==
    CASE tool_name = "get_bucket_balances" -> get_bucket_balances(self, args, env)
      [] tool_name = "allocate_to_bucket" -> allocate_to_bucket(self, args, env)
      [] tool_name = "complete_analysis" -> complete_analysis(self, args, env)
      [] tool_name = "update_bucket_balance_persistent" ->
             update_bucket_balance_persistent(self, args, env)
      [] tool_name = "get_past_decisions" -> get_past_decisions(self, args, env)
      [] tool_name = "save_decision" -> save_decision(self, args, env)
      [] tool_name = "analyze_spending_pattern" -> analyze_spending_pattern(self, args, env)
      [] tool_name = "calculate_goal_trajectory" -> calculate_goal_trajectory(self, args, env)
      [] tool_name = "get_upcoming_obligations" -> get_upcoming_obligations(self, args, env)
      [] tool_name = "get_income_history" -> get_income_history(self, args, env)
      [] tool_name = "get_expense_history" -> get_expense_history(self, args, env)
      [] tool_name = "calculate_shortfall" -> calculate_shortfall(self, args, env)
      [] tool_name = "get_goals_progress" -> get_goals_progress(self, args, env)
      [] tool_name = "simulate_scenario" -> simulate_scenario(self, args, env)
      [] OTHER -> Returns(self.state, self.db, [error |-> "Unknown tool: " \o tool_name])

\* Variant: the call is logged after the handler returned, and only then.
Execute_LogAfter(st, d, uid, cnt, log, tool_name, args, env) ==
    LET out == Dispatch(tool_name, Self(st, d, uid, cnt + 1), args, env)
    IN  [state |-> out.state, db |-> out.db, result |-> out.result, exc |-> out.exc,
         tools_called_count |-> cnt + 1,
         tool_calls_log |-> IF out.exc = ""
                            THEN Append(log, [tool |-> tool_name, arguments |-> args,
                                              sequence |-> cnt + 1])
                            ELSE log]

\* ToolExecutor.execute: count and log the call, then dispatch.  What it
\* leaves behind, the executor's counter and log included.
Execute(st, d, uid, cnt, log, tool_name, args, env) ==
    LET count1 == cnt + 1
        log1 == Append(log, [tool |-> tool_name, arguments |-> args, sequence |-> count1])
        out == Dispatch(tool_name, Self(st, d, uid, count1), args, env)
    IN  [state |-> out.state, db |-> out.db, result |-> out.result, exc |-> out.exc,
         tools_called_count |-> count1, tool_calls_log |-> log1]


-----------------------------------------------------------------------------
(* The environment's inputs *)

LongInsight == "Bhai, 4 din mein 8000 rent due hai aur bucket mein sirf 5000 hai"
ShortInsight == "Sab theek hai"

Call(name, args) == [name |-> name, arguments |-> args]

GetBalancesCall == Call("get_bucket_balances", EmptyDict)
UnknownCall == Call("transfer_funds", [amount |-> 200])
CompleteCalls ==
    {Call("complete_analysis",
          [safe_to_spend |-> 300, key_insight |-> k,
           recommended_action |-> "Kal 2 ghante extra drive karo", confidence_score |-> 85])
       : k \in {LongInsight, ShortInsight}}
AllocateCalls ==
    {Call("allocate_to_bucket", [bucket_name |-> "emergency", amount |-> 200, reason |-> "buffer"]),
     Call("allocate_to_bucket", [bucket_name |-> "flex", amount |-> 100, reason |-> "spend"])}
UpdateCalls ==
    {Call("update_bucket_balance_persistent",
          [bucket_name |-> "emergency", amount |-> -100, reason |-> "rent"]),
     Call("update_bucket_balance_persistent",
          [bucket_name |-> "flex", amount |-> 200, reason |-> "income"])}
\* A required field left out, and a value of the wrong type.
MissingFieldCall == Call("allocate_to_bucket", [bucket_name |-> "emergency"])
WrongTypeCall == Call("allocate_to_bucket", [bucket_name |-> "emergency", amount_str |-> "lots"])

\* The ledger tools: the week's decisions, a window that is too short for the
\* decision of three days ago, a type filter, and days that is not a number.
GetPastDecisionsCalls ==
    {Call("get_past_decisions", EmptyDict),
     Call("get_past_decisions", [days |-> 1]),
     Call("get_past_decisions", [decision_type |-> "warning"]),
     Call("get_past_decisions", [days_str |-> "week"])}
SaveDecisionCall ==
    Call("save_decision",
         [decision_type |-> "warning", decision_value |-> "rent short by 3000",
          reasoning |-> "rent bucket below due amount", impact_amount |-> 3000])
LedgerTools == {"update_bucket_balance_persistent", "get_past_decisions", "save_decision"}

PlainCalls == {GetBalancesCall}
OddCalls == {UnknownCall, WrongTypeCall, MissingFieldCall}
                \cup CompleteCalls \cup AllocateCalls \cup UpdateCalls
\* What a caller of the executor may ask for beyond the agents' usual requests.
LedgerCalls == GetPastDecisionsCalls \cup {SaveDecisionCall}
DbOutcomes == {"ok", "raise"}

\* load_financial_context: the in-memory balances are the active buckets of the user.
InitialBuckets == [emergency |-> 500]
InitialState == [bucket_balances |-> InitialBuckets, today_income |-> 800]

\* The agent_decisions documents of the user before the run: none, or one
\* allocation decision of three days ago.  age is now - created_at in days.
PastDecision ==
    [type |-> "allocation", value |-> "rent 200", agent |-> "react_agent", age |-> 3]
InitialLedgers == {<<>>, <<PastDecision>>}
Database(ledger) == [buckets |-> InitialBuckets, decisions |-> ledger]

NoDebate == EmptyDict

InitCommon ==
    /\ state = InitialState
    /\ db \in {Database(l) : l \in InitialLedgers}
    /\ tool_calls_log = <<>>
    /\ tools_called_count = 0
    /\ result = EmptyDict
    /\ raised = ""
    /\ iteration = 0
    /\ analysis_complete = FALSE
    /\ tool_call_count = 0
    /\ pending = <<>>
    /\ turn_msgs = <<>>
    /\ reflections = <<>>
    /\ unexpected_findings = <<>>
    /\ completed_steps = <<>>
    /\ proposed_recommendation = ""
    /\ debate = NoDebate
    /\ last_revision_check = 0
    /\ odd = 0
    /\ runs = <<>>

-----------------------------------------------------------------------------
(* The executor driven directly: any caller, any sequence of calls *)

InitExec ==
    /\ mode = "exec"
    /\ user_id \in {"", "u1"}
    /\ pc = "exec"
    /\ InitCommon

ExecuteCall ==
    /\ mode = "exec"
    /\ tools_called_count < MaxCalls
    /\ \E call \in PlainCalls \cup OddCalls \cup LedgerCalls, env \in DbOutcomes :
          /\ call \notin PlainCalls => odd < MaxOdd
          /\ odd' = IF call \in PlainCalls THEN odd ELSE odd + 1
          /\ env = "raise" => call.name \in LedgerTools
          /\ LET out == Execute(state, db, user_id, tools_called_count, tool_calls_log,
                                call.name, call.arguments, env)
             IN  /\ state' = out.state
                 /\ db' = out.db
                 /\ tools_called_count' = out.tools_called_count
                 /\ tool_calls_log' = out.tool_calls_log
                 /\ result' = out.result
                 /\ raised' = out.exc
    /\ UNCHANGED <<mode, runs, user_id, loopVars, enhancedVars>>

NextExec == ExecuteCall

SpecExec == InitExec /\ [][NextExec]_vars


-----------------------------------------------------------------------------
(* ReActAgent.run *)

\* tool_call.function.arguments is JSON text: an object, or text json.loads rejects.
JsonObject(d) == [ok |-> TRUE, value |-> d]
MalformedJson == [ok |-> FALSE]
ToolCall(call) == [name |-> call.name, arguments |-> JsonObject(call.arguments)]
MalformedToolCall == [name |-> "allocate_to_bucket", arguments |-> MalformedJson]

\* What the oracle may request in one turn.  During the first MaxCalls tool
\* calls of a run: 1..MaxBatch calls, each call other than the plain read
\* counted in odd.  During the MaxBatch calls after them: one read, or one
\* completion.  From then on the oracle only requests the plain read: it
\* neither fails nor ends the run, and the run goes on to the ceiling.
Varied == tool_call_count < MaxCalls
Lively == tool_call_count < MaxCalls + MaxBatch
VariedToolCalls ==
    {ToolCall(c) : c \in PlainCalls \cup CompleteCalls \cup {WrongTypeCall, MissingFieldCall}
                            \cup {c \in AllocateCalls : c.arguments.bucket_name = "emergency"}}
        \cup {MalformedToolCall}
OddIn(batch) == Cardinality({i \in DOMAIN batch : batch[i].name # "get_bucket_balances"})
Batches(calls) == UNION {[1..k -> calls] : k \in 1..MaxBatch}
OracleBatches ==
    IF Varied
    THEN {b \in Batches(VariedToolCalls) : odd + OddIn(b) <= MaxOdd}
    ELSE {<<ToolCall(GetBalancesCall)>>}
            \cup {<<ToolCall(c)>> : c \in {x \in CompleteCalls :
                       /\ Lively
                       /\ x.arguments.key_insight = LongInsight
                       /\ tools_called_count + 1 >= CompletionMinTools}}
FinalContents == {"", "Analysis done"}

AssistantMsg(batch) == [role |-> "assistant", tool_calls |-> Len(batch)]
ToolMsg(id, res) == [role |-> "tool", tool_call_id |-> id, content |-> res]
UserMsg(text) == [role |-> "user", content |-> text]

MaxIterations == IF mode = "enhanced" THEN EnhancedMaxIterations ELSE ReactMaxIterations
\* Variant: the loop has no ceiling.
LoopCondition_NoCeiling == ~analysis_complete
LoopCondition == iteration < MaxIterations /\ ~analysis_complete

\* Variant: no insight is made up after the loop.
ReactPostLoop_NoFallback(st, log, iter, count) ==
    Put(Put(Put(st, "tool_calls_log", log), "react_iterations", iter),
        "total_tool_calls", count)

\* Variant: total_tool_calls holds the number of oracle turns.
ReactPostLoop_CountsTurns(st, log, iter, count) ==
    Put(Put(Put(st, "tool_calls_log", log), "react_iterations", iter),
        "total_tool_calls", iter)

\* The statements after the while loop of ReActAgent.run.
ReactPostLoop(st, log, iter, count) ==
    LET st1 == Put(Put(Put(st, "tool_calls_log", log),
                       "react_iterations", iter),
                       "total_tool_calls", count)
    IN  IF Get(st1, "key_insight", "") = "" /\ count > 0
        THEN Put(st1, "key_insight", "Analysis complete - aapka financial health check ho gaya hai.")
        ELSE st1

\* Variant: the error is recorded and the loop goes on to the next turn.
ReactAbort_Retry(st, e, log, iter, count) ==
    [state |-> Put(st, "agent_error", e), pc |-> "loop", raised |-> ""]

\* except Exception as e: state["agent_error"] = str(e); break
ReactAbort(st, e, log, iter, count) ==
    [state |-> ReactPostLoop(Put(st, "agent_error", e), log, iter, count),
     pc |-> "done", raised |-> ""]

\* The oracle request of a turn fails.
ReactOracleFails ==
    /\ mode = "react" /\ pc = "loop" /\ LoopCondition
    /\ Lively /\ odd < MaxOdd /\ odd' = odd + 1
    /\ iteration' = iteration + 1
    /\ LET out == ReactAbort(state, "oracle failure", tool_calls_log, iteration', tool_call_count)
       IN  state' = out.state /\ pc' = out.pc /\ raised' = out.raised
    /\ turn_msgs' = <<>>
    /\ UNCHANGED <<mode, runs, user_id, db, tool_calls_log, tools_called_count, result,
                   analysis_complete, tool_call_count, pending, enhancedVars>>

\* Variant: a final message ends the loop whatever the number of tool calls.
ReactFinalMessage_AlwaysDone ==
    /\ mode = "react" /\ pc = "loop" /\ LoopCondition
    /\ Lively
    /\ iteration' = iteration + 1
    /\ analysis_complete' = TRUE
    /\ turn_msgs' = <<>>
    /\ UNCHANGED <<mode, runs, user_id, state, db, tool_calls_log, tools_called_count, result,
                   raised, pc, tool_call_count, pending, enhancedVars, odd>>

\* The oracle answers with a final message and no tool calls.
ReactFinalMessage ==
    /\ mode = "react" /\ pc = "loop" /\ LoopCondition
    /\ Lively
    /\ iteration' = iteration + 1
    /\ \E content \in FinalContents :
          state' = IF content # "" THEN Put(state, "agent_final_message", content) ELSE state
    /\ IF ~analysis_complete /\ tool_call_count < MinToolCalls
       THEN /\ odd < MaxOdd /\ odd' = odd + 1
            /\ turn_msgs' = <<UserMsg("You must call at least 5 tools before completing")>>
            /\ UNCHANGED analysis_complete
       ELSE /\ turn_msgs' = <<>>
            /\ analysis_complete' = TRUE
            /\ UNCHANGED odd
    /\ UNCHANGED <<mode, runs, user_id, db, tool_calls_log, tools_called_count, result,
                   raised, pc, tool_call_count, pending, enhancedVars>>

\* Variant: the requested calls are taken up last first.
ReactToolCalls_Reversed ==
    /\ mode = "react" /\ pc = "loop" /\ LoopCondition
    /\ iteration' = iteration + 1
    /\ \E batch \in OracleBatches :
          /\ pending' = [i \in DOMAIN batch |->
                            [id |-> Len(batch) + 1 - i, call |-> batch[Len(batch) + 1 - i]]]
          /\ turn_msgs' = <<AssistantMsg(batch)>>
          /\ odd' = IF Varied THEN odd + OddIn(batch) ELSE odd
    /\ pc' = "tools"
    /\ UNCHANGED <<mode, runs, user_id, state, db, tool_calls_log, tools_called_count, result,
                   raised, analysis_complete, tool_call_count, enhancedVars>>

\* The oracle requests tool calls: the assistant message is appended.
ReactToolCalls ==
    /\ mode = "react" /\ pc = "loop" /\ LoopCondition
    /\ iteration' = iteration + 1
    /\ \E batch \in OracleBatches :
          /\ pending' = [i \in DOMAIN batch |-> [id |-> i, call |-> batch[i]]]
          /\ turn_msgs' = <<AssistantMsg(batch)>>
          /\ odd' = IF Varied THEN odd + OddIn(batch) ELSE odd
    /\ pc' = "tools"
    /\ UNCHANGED <<mode, runs, user_id, state, db, tool_calls_log, tools_called_count, result,
                   raised, analysis_complete, tool_call_count, enhancedVars>>

\* Variant: a refusal is fed back without the corrective user message.
RefusalMessages_Silent(id, res) == <<ToolMsg(id, res)>>

\* What a refused complete_analysis appends to the conversation: its tool
\* message, then the corrective user message.
RefusalMessages(id, res) ==
    <<ToolMsg(id, res), UserMsg("Keep going! You need more analysis.")>>

\* One pass of "for tool_call in message.tool_calls".
ReactExecuteTool ==
    /\ mode = "react" /\ pc = "tools" /\ pending # <<>>
    /\ LET tool_call == Head(pending)
           tool_name == tool_call.call.name
       IN  IF ~tool_call.call.arguments.ok
           THEN \* json.loads raises
                LET out == ReactAbort(state, "JSONDecodeError", tool_calls_log,
                                      iteration, tool_call_count)
                IN  /\ state' = out.state /\ pc' = out.pc /\ raised' = out.raised
                    /\ UNCHANGED <<db, tool_calls_log, tools_called_count, result,
                                   analysis_complete, tool_call_count, pending, turn_msgs>>
           ELSE \E env \in DbOutcomes :
                /\ env = "raise" => tool_name = "update_bucket_balance_persistent"
                /\ LET ex == Execute(state, db, user_id, tools_called_count, tool_calls_log,
                                     tool_name, tool_call.call.arguments.value, env)
                   IN  /\ tool_call_count' = tool_call_count + 1
                       /\ db' = ex.db
                       /\ tools_called_count' = ex.tools_called_count
                       /\ tool_calls_log' = ex.tool_calls_log
                       /\ IF ex.exc # ""
                          THEN LET out == ReactAbort(ex.state, ex.exc, ex.tool_calls_log,
                                                     iteration, tool_call_count')
                               IN  /\ state' = out.state /\ pc' = out.pc /\ raised' = out.raised
                                   /\ UNCHANGED <<result, analysis_complete, pending, turn_msgs>>
                          ELSE /\ state' = ex.state
                               /\ result' = ex.result
                               /\ analysis_complete' =
                                     IF tool_name = "complete_analysis"
                                        /\ Get(ex.result, "complete", FALSE)
                                     THEN TRUE ELSE analysis_complete
                               /\ turn_msgs' =
                                     IF tool_name = "complete_analysis"
                                        /\ Get(ex.result, "error", "") # ""
                                     THEN turn_msgs \o RefusalMessages(tool_call.id, ex.result)
                                     ELSE Append(turn_msgs, ToolMsg(tool_call.id, ex.result))
                               /\ pending' = Tail(pending)
                               /\ pc' = IF Tail(pending) = <<>> THEN "loop" ELSE "tools"
                               /\ UNCHANGED raised
    /\ UNCHANGED <<mode, runs, user_id, iteration, enhancedVars, odd>>

\* The while condition fails: the statements after the loop, and return state.
ReactReturn ==
    /\ mode = "react" /\ pc = "loop" /\ ~LoopCondition
    /\ state' = ReactPostLoop(state, tool_calls_log, iteration, tool_call_count)
    /\ pc' = "done"
    /\ UNCHANGED <<mode, runs, user_id, db, tool_calls_log, tools_called_count, result, raised,
                   iteration, analysis_complete, tool_call_count, pending, turn_msgs,
                   enhancedVars, odd>>

InitReact ==
    /\ mode = "react"
    /\ user_id = "u1"
    /\ pc = "loop"
    /\ InitCommon

NextReact ==
    \/ ReactOracleFails
    \/ ReactFinalMessage
    \/ ReactToolCalls
    \/ ReactExecuteTool
    \/ ReactReturn

SpecReact == InitReact /\ [][NextReact]_vars


-----------------------------------------------------------------------------
(* EnhancedReActAgent.run: learning, planning, the execution loop with     *)
(* reflection and plan revision, the debate.                               *)
(*                                                                         *)
(* A confidence the code holds as a fraction (0.6) is written in           *)
(* hundredths (60): int(confidence * 100) is then the number itself.       *)

AgenticFeatures == [planning |-> TRUE, reflection |-> TRUE, debate |-> TRUE, learning |-> TRUE]

\* _learn_from_past: no decision in the last 14 days, the oracle's analysis,
\* or the dict of the except branch.
NoHistoryLearnings == [patterns_detected |-> <<>>, adjusted_behavior |-> "No history yet"]
PatternLearnings ==
    [patterns_detected |-> <<"weekend income dips">>, adjusted_behavior |-> "Save more on Fridays"]
FailedLearnings ==
    [error |-> "oracle failure", patterns_detected |-> <<>>,
     adjusted_behavior |-> "Unable to analyze history"]
LearningOutcomes == {NoHistoryLearnings, PatternLearnings, FailedLearnings}

\* _learn_from_past.  env: "ok", or "raise" when AgentDecision.find raises;
\* reply: what the pattern request yields when it is made.
learn_from_past(ledger, env, reply) ==
    IF env = "raise" THEN FailedLearnings
    ELSE IF SelectSeq(ledger, LAMBDA d : d.age <= LearningWindow) = <<>>
         THEN NoHistoryLearnings
         ELSE reply

\* The document _save_execution_learnings inserts.
LearningRecord(st) ==
    [type |-> "execution_learning",
     value |-> "Completed with " \o ToString(Get(st, "total_tool_calls", 0)) \o " tools",
     agent |-> "enhanced_react_agent", age |-> 0]

default_plan_steps ==
    <<"get_bucket_balances", "get_upcoming_obligations", "calculate_shortfall",
      "analyze_spending_pattern", "set_risk_score", "complete_analysis">>

\* _create_plan: the planner's JSON with created_at and revision_count set, or
\* the default plan of the except branch.
PlannerPlan == [goal |-> "Check rent gap", steps |-> <<"get_bucket_balances", "complete_analysis">>,
                created_at |-> "now", revision_count |-> 0]
DefaultPlan == [error |-> "oracle failure", steps |-> default_plan_steps, revision_count |-> 0]
\* The planner's JSON when it is an object without "steps": returned as it is.
SteplessPlan == [goal |-> "Check rent gap", created_at |-> "now", revision_count |-> 0]
PlanOutcomes == {PlannerPlan, DefaultPlan, SteplessPlan}

\* _reflect_on_action: the reflection module's JSON, or the dict of the except
\* branch.  anomalies_int is an "anomalies" that is a number.
CleanReflection == [success |-> TRUE, outcome_matched |-> TRUE, anomalies |-> <<>>, confidence |-> 90]
FallbackReflection == [success |-> TRUE, confidence |-> 50]
ReflectionOutcomes ==
    {CleanReflection, FallbackReflection,
     [success |-> TRUE, anomalies |-> <<"balance lower than expected">>, confidence |-> 70],
     [success |-> FALSE, confidence |-> 40,
      corrective_action |-> [action |-> "get_bucket_balances", reason |-> "stale balance"]],
     [success |-> TRUE, anomalies_int |-> 5]}

\* _revise_plan_if_needed: the reviser's JSON, or needs_revision False when
\* nothing unexpected was found or the request failed.
NoRevision == [needs_revision |-> FALSE]
RevisionOutcomes ==
    {NoRevision,
     [needs_revision |-> TRUE,
      revised_steps |-> <<"get_bucket_balances", "calculate_shortfall", "complete_analysis">>],
     [needs_revision |-> TRUE]}

\* The statements after the while loop of _execute_with_reflection, its return
\* value, and the test of run() that opens the debate.
EnhancedLoopExit(st, log, iter, count, refl, unexpected, proposed) ==
    LET st1 == Put(Put(Put(Put(Put(st, "tool_calls_log", log),
                       "react_iterations", iter),
                       "total_tool_calls", count),
                       "reflections", refl),
                       "unexpected_findings", unexpected)
        st2 == IF Get(st1, "key_insight", "") = "" /\ count > 0
               THEN Put(st1, "key_insight",
                        "Analysis complete - aapka financial health check ho gaya hai.")
               ELSE st1
        recommendation == IF proposed # "" THEN proposed ELSE Get(st2, "key_insight", "")
    IN  [state |-> st2,
         pc |-> IF recommendation # "" THEN "debate" ELSE "save",
         debate |-> IF recommendation # ""
                    THEN [recommendation |-> recommendation, perspectives |-> <<>>,
                          synthesis_requested |-> FALSE, failed |-> {}]
                    ELSE NoDebate]

\* The loop's locals and what the executor holds, as one record.
Locals ==
    [state |-> state, db |-> db, tools_called_count |-> tools_called_count,
     tool_calls_log |-> tool_calls_log, result |-> result,
     tool_call_count |-> tool_call_count, analysis_complete |-> analysis_complete,
     turn_msgs |-> turn_msgs, pending |-> pending, pc |-> pc,
     reflections |-> reflections, unexpected_findings |-> unexpected_findings,
     completed_steps |-> completed_steps,
     proposed_recommendation |-> proposed_recommendation, debate |-> debate,
     last_revision_check |-> last_revision_check]

\* except Exception as e: state["agent_error"] = str(e); break
EnhancedAbort(c, e, iter) ==
    LET out == EnhancedLoopExit(Put(c.state, "agent_error", e), c.tool_calls_log, iter,
                                c.tool_call_count, c.reflections, c.unexpected_findings,
                                c.proposed_recommendation)
    IN  [c EXCEPT !.state = out.state, !.pc = out.pc, !.debate = out.debate]

\* The plan revision check after the for loop: "if self.enable_planning and
\* plan and tool_call_count % 3 == 0".  c.pending is empty after the last pass.
\* plan is state["execution_plan"], the same dict.
RevisePlan(c, plan, revision, iter) ==
    IF ~Get(revision, "needs_revision", FALSE) THEN c
    ELSE IF "steps" \notin DOMAIN plan THEN EnhancedAbort(c, "KeyError", iter)
    ELSE [c EXCEPT !.state =
            Put(Put(@, "execution_plan",
                    Put(Put(plan, "steps", Get(revision, "revised_steps", plan["steps"])),
                        "revision_count", Get(plan, "revision_count", 0) + 1)),
                "plan_revisions", Get(plan, "revision_count", 0) + 1)]

RevisePlanIfNeeded(c, rev, iter) ==
    IF c.pending = <<>> /\ "execution_plan" \in DOMAIN c.state /\ c.tool_call_count % 3 = 0
    THEN RevisePlan([c EXCEPT !.last_revision_check = c.tool_call_count],
                    c.state["execution_plan"],
                    IF c.unexpected_findings = <<>> THEN NoRevision ELSE rev, iter)
    ELSE c

\* Lines 449-452: the call is counted and executed.
Executed(c, ex) ==
    [c EXCEPT !.tool_call_count = @ + 1, !.state = ex.state, !.db = ex.db,
              !.tools_called_count = ex.tools_called_count,
              !.tool_calls_log = ex.tool_calls_log]

\* Lines 455-469: the tool message, and the reflection r on the action.
Reflected(c, id, res, r) ==
    [c EXCEPT !.result = res,
              !.turn_msgs = Append(@, ToolMsg(id, res)),
              !.reflections = Append(@, r)]

\* Lines 472-503: anomalies, corrective guidance, completed steps, completion.
Completed(c, tool_name, res, r) ==
    [c EXCEPT
       !.unexpected_findings = @ \o Get(r, "anomalies", <<>>),
       !.turn_msgs =
           (IF ~Get(r, "success", TRUE) /\ "corrective_action" \in DOMAIN r
            THEN Append(@, UserMsg("Previous action had issues."))
            ELSE @)
           \o (IF tool_name = "complete_analysis" /\ ~Get(res, "complete", FALSE)
                  /\ Get(res, "error", "") # ""
               THEN <<UserMsg("Keep going! Need more thorough analysis.")>>
               ELSE <<>>),
       !.completed_steps = Append(@, tool_name),
       !.analysis_complete =
           IF tool_name = "complete_analysis" /\ Get(res, "complete", FALSE) THEN TRUE ELSE @,
       !.proposed_recommendation =
           IF tool_name = "complete_analysis" /\ Get(res, "insight", "") # ""
           THEN res["insight"] ELSE @,
       !.pending = Tail(@),
       !.pc = IF Tail(c.pending) = <<>> THEN "loop" ELSE "tools"]

AfterExecute(c, tool_call, ex, r, rev, iter) ==
    IF ex.exc # "" THEN EnhancedAbort(Executed(c, ex), ex.exc, iter)
    ELSE IF "anomalies_int" \in DOMAIN r
    THEN EnhancedAbort(Reflected(Executed(c, ex), tool_call.id, ex.result, r), "TypeError", iter)
    ELSE RevisePlanIfNeeded(
             Completed(Reflected(Executed(c, ex), tool_call.id, ex.result, r),
                       tool_call.call.name, ex.result, r),
             rev, iter)

\* One pass of "for tool_call in message.tool_calls" of _execute_with_reflection,
\* and the plan revision check when it was the last pass of the turn.
\* r is the reflection on the action, rev the reviser's answer.
EnhancedToolStep(c, tool_call, env, r, rev, iter) ==
    IF ~tool_call.call.arguments.ok
    THEN EnhancedAbort(c, "JSONDecodeError", iter)
    ELSE AfterExecute(c, tool_call,
                      Execute(c.state, c.db, user_id, c.tools_called_count, c.tool_calls_log,
                              tool_call.call.name, tool_call.call.arguments.value, env),
                      r, rev, iter)

\* Phase 0 of run(): agentic_features, then _learn_from_past.
EnhancedLearn ==
    /\ mode = "enhanced" /\ pc = "learn"
    /\ \E env \in DbOutcomes, reply \in LearningOutcomes \ {NoHistoryLearnings} :
       \E learnings \in {learn_from_past(db.decisions, env, reply)} :
          /\ learnings # NoHistoryLearnings => odd < MaxOdd
          /\ odd' = IF learnings # NoHistoryLearnings THEN odd + 1 ELSE odd
          /\ state' = IF user_id # ""
                      THEN Put(Put(state, "agentic_features", AgenticFeatures),
                               "learnings", learnings)
                      ELSE Put(state, "agentic_features", AgenticFeatures)
    /\ pc' = "plan"
    /\ UNCHANGED <<mode, runs, user_id, db, tool_calls_log, tools_called_count, result, raised,
                   iteration, analysis_complete, tool_call_count, pending, turn_msgs,
                   enhancedVars>>

\* Phase 1 of run(): _create_plan.
EnhancedCreatePlan ==
    /\ mode = "enhanced" /\ pc = "plan"
    /\ \E plan \in PlanOutcomes :
          /\ plan # PlannerPlan => odd < MaxOdd
          /\ odd' = IF plan # PlannerPlan THEN odd + 1 ELSE odd
          /\ state' = Put(state, "execution_plan", plan)
    /\ pc' = "loop"
    /\ UNCHANGED <<mode, runs, user_id, db, tool_calls_log, tools_called_count, result, raised,
                   iteration, analysis_complete, tool_call_count, pending, turn_msgs,
                   enhancedVars>>

\* The oracle request of a turn fails.
EnhancedOracleFails ==
    /\ mode = "enhanced" /\ pc = "loop" /\ LoopCondition
    /\ Lively /\ odd < MaxOdd /\ odd' = odd + 1
    /\ iteration' = iteration + 1
    /\ LET out == EnhancedAbort(Locals, "oracle failure", iteration')
       IN  state' = out.state /\ pc' = out.pc /\ debate' = out.debate
    /\ turn_msgs' = <<>>
    /\ UNCHANGED <<mode, runs, user_id, db, tool_calls_log, tools_called_count, result, raised,
                   analysis_complete, tool_call_count, pending, reflections,
                   unexpected_findings, completed_steps, proposed_recommendation,
                   last_revision_check>>

\* The oracle answers with a final message and no tool calls.
EnhancedFinalMessage ==
    /\ mode = "enhanced" /\ pc = "loop" /\ LoopCondition
    /\ Lively
    /\ iteration' = iteration + 1
    /\ \E content \in FinalContents :
          state' = IF content # "" THEN Put(state, "agent_final_message", content) ELSE state
    /\ IF ~analysis_complete /\ tool_call_count < MinToolCalls
       THEN /\ odd < MaxOdd /\ odd' = odd + 1
            /\ turn_msgs' = <<UserMsg("Need at least 5. Continue analysis.")>>
            /\ UNCHANGED analysis_complete
       ELSE /\ turn_msgs' = <<>>
            /\ analysis_complete' = TRUE
            /\ UNCHANGED odd
    /\ UNCHANGED <<mode, runs, user_id, db, tool_calls_log, tools_called_count, result,
                   raised, pc, tool_call_count, pending, enhancedVars>>

\* The oracle requests tool calls: the assistant message is appended.
EnhancedToolCalls ==
    /\ mode = "enhanced" /\ pc = "loop" /\ LoopCondition
    /\ iteration' = iteration + 1
    /\ \E batch \in OracleBatches :
          /\ pending' = [i \in DOMAIN batch |-> [id |-> i, call |-> batch[i]]]
          /\ turn_msgs' = <<AssistantMsg(batch)>>
          /\ odd' = IF Varied THEN odd + OddIn(batch) ELSE odd
    /\ pc' = "tools"
    /\ UNCHANGED <<mode, runs, user_id, state, db, tool_calls_log, tools_called_count, result,
                   raised, analysis_complete, tool_call_count, enhancedVars>>

EnhancedExecuteTool ==
    /\ mode = "enhanced" /\ pc = "tools" /\ pending # <<>>
    /\ \E env \in DbOutcomes, r \in ReflectionOutcomes, rev \in RevisionOutcomes :
          /\ env = "raise" => Head(pending).call.name = "update_bucket_balance_persistent"
          /\ odd + (IF r # CleanReflection THEN 1 ELSE 0) <= MaxOdd
          /\ (r # CleanReflection \/ rev # NoRevision) => Varied
          /\ odd' = odd + (IF r # CleanReflection THEN 1 ELSE 0)
          /\ r # CleanReflection => Head(pending).call.arguments.ok
          /\ rev # NoRevision =>
                /\ Tail(pending) = <<>>
                /\ (tool_call_count + 1) % 3 = 0
                /\ unexpected_findings \o Get(r, "anomalies", <<>>) # <<>>
          /\ \E out \in {EnhancedToolStep(Locals, Head(pending), env, r, rev, iteration)} :
              /\ state' = out.state
              /\ db' = out.db
              /\ tools_called_count' = out.tools_called_count
              /\ tool_calls_log' = out.tool_calls_log
              /\ result' = out.result
              /\ tool_call_count' = out.tool_call_count
              /\ analysis_complete' = out.analysis_complete
              /\ turn_msgs' = out.turn_msgs
              /\ pending' = out.pending
              /\ pc' = out.pc
              /\ reflections' = out.reflections
              /\ unexpected_findings' = out.unexpected_findings
              /\ completed_steps' = out.completed_steps
              /\ proposed_recommendation' = out.proposed_recommendation
              /\ debate' = out.debate
              /\ last_revision_check' = out.last_revision_check
    /\ UNCHANGED <<mode, runs, user_id, raised, iteration>>

\* The while condition fails: the statements after the loop, the return of
\* _execute_with_reflection, and the test that opens the debate.
EnhancedReturn ==
    /\ mode = "enhanced" /\ pc = "loop" /\ ~LoopCondition
    /\ LET out == EnhancedLoopExit(state, tool_calls_log, iteration, tool_call_count,
                                   reflections, unexpected_findings, proposed_recommendation)
       IN  state' = out.state /\ pc' = out.pc /\ debate' = out.debate
    /\ UNCHANGED <<mode, runs, user_id, db, tool_calls_log, tools_called_count, result, raised,
                   iteration, analysis_complete, tool_call_count, pending, turn_msgs,
                   reflections, unexpected_findings, completed_steps,
                   proposed_recommendation, last_revision_check, odd>>

-----------------------------------------------------------------------------
(* The debate: _run_debate and the statements of run() that follow it *)

DEBATE_PERSPECTIVES == <<"Conservative Advisor", "Growth Advisor", "Practical Advisor">>

\* A request to the oracle that raises (network, quota, unparsable JSON).
OracleFailure == [failed |-> TRUE]

\* What the oracle answers an advisor request: a failure, the advisor's JSON,
\* or JSON that is not an object.
NotAnObject == [not_an_object |-> TRUE]
AdvisorReplies ==
    {OracleFailure,
     [agreement_level |-> 40, concerns |-> <<"advance is risky">>, support_points |-> <<>>],
     NotAnObject}

\* What the oracle answers the synthesis request: a failure, or the
\* synthesizer's JSON.  confidence_str is a "confidence" that is a string.
SynthesisReplies ==
    {OracleFailure,
     [final_recommendation |-> "Pehle emergency bucket bharo, advance mat lo",
      confidence |-> 80, key_insight |-> "Emergency bucket 500 par hai, rent se pehle 1000 karo"],
     [final_recommendation |-> "Pehle emergency bucket bharo, advance mat lo",
      confidence_str |-> "high"],
     [adjustments_made |-> <<>>, confidence |-> 80]}

get_advisor_perspective(reply) ==
    IF reply = OracleFailure
    THEN [agreement_level |-> 70, concerns |-> <<>>, support_points |-> <<>>]
    ELSE reply

\* Variant: a failed synthesis yields no recommendation.
synthesize_debate_Empty(original, reply) ==
    IF reply = OracleFailure THEN [confidence |-> 60] ELSE reply

synthesize_debate(original, reply) ==
    IF reply = OracleFailure
    THEN [final_recommendation |-> original, confidence |-> 60, key_insight |-> original]
    ELSE reply

\* The replies to the three advisor requests of one debate, by the number of
\* them that are not failures.
DebateReplies ==
    [k \in 0..Len(DEBATE_PERSPECTIVES) |->
        {replies \in [DOMAIN DEBATE_PERSPECTIVES -> AdvisorReplies] :
            Cardinality({i \in DOMAIN replies : replies[i] # OracleFailure}) = k}]

\* What run() does with the debate result: lines 265-271.
ApplyDebate(st, debate_result) ==
    LET st1 == Put(st, "debate_result", debate_result)
    IN  IF Get(debate_result, "final_recommendation", "") = ""
        THEN [state |-> st1, exc |-> ""]
        ELSE LET st2 == Put(Put(st1,
                            "key_insight", Get(debate_result, "key_insight",
                                               Get(st1, "key_insight", ""))),
                            "recommended_action", debate_result["final_recommendation"])
             IN  IF "confidence_str" \in DOMAIN debate_result
                 THEN [state |-> st2, exc |-> "ValueError"]
                 ELSE [state |-> Put(st2, "confidence_score",
                                     Get(debate_result, "confidence", 70)),
                       exc |-> ""]

\* _run_debate and the rest of run(): one advisor request per entry of
\* DEBATE_PERSPECTIVES, in order, then the synthesis request, then lines
\* 265-279.  An advisor answer that is not an object raises at
\* perspective["advisor"] = ..., and run() with it: no later request is made.
\* debate.failed names the requests that failed.
EnhancedDebate ==
    /\ mode = "enhanced" /\ pc = "debate"
    /\ \E spent_on_advisors \in 0..(MaxOdd - odd) :
       \E replies \in DebateReplies[spent_on_advisors], reply \in SynthesisReplies :
          LET spent == spent_on_advisors + (IF reply # OracleFailure THEN 1 ELSE 0)
              broken == {i \in DOMAIN replies : replies[i] = NotAnObject}
              perspectives == [i \in DOMAIN replies |->
                                  Put(get_advisor_perspective(replies[i]),
                                      "advisor", DEBATE_PERSPECTIVES[i])]
              failed == {DEBATE_PERSPECTIVES[i] : i \in {j \in DOMAIN replies :
                                                          replies[j] = OracleFailure}}
          IN  /\ odd + spent <= MaxOdd
              /\ odd' = odd + spent
              /\ IF broken # {}
                 THEN LET first == CHOOSE i \in broken : \A j \in broken : i <= j
                      IN  /\ \A i \in DOMAIN replies : i > first => replies[i] = OracleFailure
                          /\ reply = OracleFailure
                          /\ debate' = [debate EXCEPT
                                          !.perspectives = SubSeq(perspectives, 1, first - 1),
                                          !.failed = {DEBATE_PERSPECTIVES[i] : i \in 1..(first - 1)}]
                          /\ raised' = "TypeError"
                          /\ UNCHANGED state
                 ELSE LET synthesis == Put(synthesize_debate(debate.recommendation, reply),
                                           "individual_perspectives", perspectives)
                          out == ApplyDebate(state, synthesis)
                      IN  /\ debate' = [debate EXCEPT
                                          !.perspectives = perspectives,
                                          !.synthesis_requested = TRUE,
                                          !.failed = failed \cup (IF reply = OracleFailure
                                                                  THEN {"synthesis"} ELSE {})]
                          /\ state' = out.state
                          /\ raised' = out.exc
    /\ pc' = IF raised' = "" THEN "save" ELSE "done"
    /\ UNCHANGED <<mode, runs, user_id, db, tool_calls_log, tools_called_count, result,
                   iteration, analysis_complete, tool_call_count, pending, turn_msgs,
                   reflections, unexpected_findings, completed_steps,
                   proposed_recommendation, last_revision_check>>

\* Variant: a failure of the insert leaves run().
EnhancedSaveLearnings_Unguarded ==
    /\ mode = "enhanced" /\ pc = "save"
    /\ \E env \in DbOutcomes :
          /\ db' = IF env = "ok"
                   THEN [db EXCEPT !.decisions = Append(@, LearningRecord(state))]
                   ELSE db
          /\ raised' = IF env = "ok" THEN "" ELSE "PersistenceError"
    /\ pc' = "done"
    /\ UNCHANGED <<mode, runs, user_id, state, tool_calls_log, tools_called_count, result,
                   iteration, analysis_complete, tool_call_count, pending, turn_msgs,
                   enhancedVars, odd>>

\* Phase 4 of run(): _save_execution_learnings, then "return state".
\* env: "ok", or "raise" when learning_decision.insert raises.
EnhancedSaveLearnings ==
    /\ mode = "enhanced" /\ pc = "save"
    /\ \E env \in DbOutcomes :
          db' = IF user_id # "" /\ env = "ok"
                THEN [db EXCEPT !.decisions = Append(@, LearningRecord(state))]
                ELSE db
    /\ pc' = "done"
    /\ UNCHANGED <<mode, runs, user_id, state, tool_calls_log, tools_called_count, result, raised,
                   iteration, analysis_complete, tool_call_count, pending, turn_msgs,
                   enhancedVars, odd>>

InitEnhanced ==
    /\ mode = "enhanced"
    /\ user_id = "u1"
    /\ pc = "learn"
    /\ InitCommon

NextEnhanced ==
    \/ EnhancedLearn
    \/ EnhancedCreatePlan
    \/ EnhancedOracleFails
    \/ EnhancedFinalMessage
    \/ EnhancedToolCalls
    \/ EnhancedExecuteTool
    \/ EnhancedReturn
    \/ EnhancedDebate
    \/ EnhancedSaveLearnings

SpecEnhanced == InitEnhanced /\ [][NextEnhanced]_vars

-----------------------------------------------------------------------------
(* run_fully_agentic_pipeline in routed mode: the router decides, the       *)
(* specialists it named run one after the other, the required fields are   *)
(* filled in.  pending holds the names of agents_to_run still to visit.     *)
(*                                                                         *)
(* The state of the model holds no obligations: where the code walks        *)
(* obligations or obligation_risks it walks an empty list.                  *)

\* Names the router lists in one decision.
MaxAgents == 3

AGENT_MAP ==
    {"INCOME_ANALYZER", "EXPENSE_ANALYZER", "OBLIGATION_RISK_ANALYZER", "BUCKET_ALLOCATOR",
     "RISK_CALCULATOR", "GOAL_TRACKER", "CASHFLOW_FORECASTER", "ADVANCE_EVALUATOR"}

\* The names the router picks from: three of the map and one that is not in it.
RouterAgentNames == {"INCOME_ANALYZER", "BUCKET_ALLOCATOR", "RISK_CALCULATOR", "TAX_ADVISOR"}
AgentLists == UNION {[1..k -> RouterAgentNames] : k \in 0..MaxAgents}

\* What the oracle answers the router: a failure, JSON that is not an
\* object, the four fields, an object with fields missing, or an object
\* whose agents_to_run is a list of objects (agents_to_run_obj).
RouterReplies ==
    {OracleFailure, NotAnObject}
        \cup {[reasoning |-> "Income just arrived", urgency |-> "high", agents_to_run |-> l,
               focus_message |-> "Allocate today's income"] : l \in AgentLists}
        \cup {[reasoning |-> "Income just arrived"]}
        \cup {[reasoning |-> "Income just arrived", urgency |-> "high",
               agents_to_run_obj |-> <<[agent |-> "INCOME_ANALYZER"]>>,
               focus_message |-> "Allocate today's income"]}

\* The decision of the except branch of decide_agents.
DefaultDecision(e) ==
    [reasoning |-> "Using default analysis (router error: " \o e \o ")",
     urgency |-> "medium",
     agents_to_run |-> <<"INCOME_ANALYZER", "EXPENSE_ANALYZER", "OBLIGATION_RISK_ANALYZER",
                         "BUCKET_ALLOCATOR", "RISK_CALCULATOR">>,
     focus_message |-> "Running standard financial analysis"]

\* "k in result" for the router's JSON.
HasField(d, k) == k \in DOMAIN d \/ (k \o "_obj") \in DOMAIN d
FillDefault(d, k, v) == IF HasField(d, k) THEN d ELSE Put(d, k, v)

\* AgentRouter.decide_agents.  JSON that is not an object raises inside the
\* try at result["agents_to_run"] = ... and yields the default decision.
decide_agents(reply) ==
    IF reply = OracleFailure THEN DefaultDecision("oracle failure")
    ELSE IF reply = NotAnObject THEN DefaultDecision("TypeError")
    ELSE FillDefault(FillDefault(FillDefault(FillDefault(reply,
             "agents_to_run", <<"INCOME_ANALYZER", "RISK_CALCULATOR">>),
             "reasoning", "Default analysis"),
             "urgency", "medium"),
             "focus_message", "Analyzing your finances")

Activity(agent, status) == [agent |-> agent, status |-> status]

\* What a specialist that returns has written into the state.
SpecialistResult(name, st) ==
    CASE name = "INCOME_ANALYZER" -> Put(st, "income_patterns", [trend_direction |-> "flat"])
      [] name = "EXPENSE_ANALYZER" -> Put(st, "expense_analysis", [total |-> 0])
      [] name = "OBLIGATION_RISK_ANALYZER" -> Put(st, "obligation_risks", <<>>)
      [] name = "BUCKET_ALLOCATOR" -> Put(st, "today_allocation", [safe_to_spend |-> 300])
      [] name = "RISK_CALCULATOR" -> Put(Put(st, "risk_score", 55), "risk_level", "high")
      [] OTHER -> st
SpecialistOutcomes == {"completed", "error"}

\* _generate_smart_insight and _generate_recommended_action.
generate_smart_insight(st, buckets) ==
    IF Get(st, "today_income", 0) > 0 THEN "Aaj 800 kamaye! Accha chal raha hai."
    ELSE IF SumValues(buckets) > 0
    THEN IF \E b \in DOMAIN buckets : buckets[b] < 1000
         THEN "Bucket mein sirf thoda hai. Agle income se pehle top-up karo!"
         ELSE "Total balance theek hai."
    ELSE "Namaste! Add some income and bills to get personalized insights."

generate_recommended_action(st, buckets) ==
    IF Get(buckets, "emergency", 0) < 2000 /\ SumValues(buckets) > 5000
    THEN "Emergency fund thoda low hai. Agle income ka 10% emergency mein daalo."
    ELSE IF SumValues(buckets) > 0
    THEN "Sab set hai! Apna kaam karo aur consistent income maintain karo."
    ELSE "Start by adding your income and monthly bills to get smart recommendations."

\* _ensure_required_fields.  A coverage ratio below 0.5, 1.0, 1.5 is written
\* with integers.
RiskFromCoverage(total_balance, total_obligations) ==
    IF total_obligations > 0 /\ total_balance > 0
    THEN IF 2 * total_balance < total_obligations THEN 80
         ELSE IF total_balance < total_obligations THEN 50
         ELSE IF 2 * total_balance < 3 * total_obligations THEN 25
         ELSE 10
    ELSE 30
RiskLevel(score) ==
    IF score >= 75 THEN "critical"
    ELSE IF score >= 50 THEN "high"
    ELSE IF score >= 25 THEN "moderate"
    ELSE "low"

EnsureSafeToSpend(st, buckets) ==
    IF Get(st, "safe_to_spend", 0) # 0 THEN st
    ELSE IF Get(Get(st, "today_allocation", EmptyDict), "safe_to_spend", 0) # 0
    THEN Put(st, "safe_to_spend", st["today_allocation"]["safe_to_spend"])
    ELSE Put(st, "safe_to_spend", Get(buckets, "flex", 0) + Get(buckets, "discretionary", 0))
EnsureRisk(st, buckets) ==
    IF Get(st, "risk_score", 0) # 0 THEN st
    ELSE Put(st, "risk_score", RiskFromCoverage(SumValues(buckets), 0))
EnsureRiskLevel(st) ==
    IF Get(st, "risk_level", "") # "" THEN st
    ELSE Put(st, "risk_level", RiskLevel(st["risk_score"]))
EnsureInsight(st, buckets) ==
    IF Len(Get(st, "key_insight", "")) < 10
    THEN Put(st, "key_insight", generate_smart_insight(st, buckets))
    ELSE st
EnsureAction(st, buckets) ==
    IF Len(Get(st, "recommended_action", "")) < 5
    THEN Put(st, "recommended_action", generate_recommended_action(st, buckets))
    ELSE st
EnsureAiInsight(st) == Put(st, "ai_insight", Get(st, "key_insight", ""))
ensure_required_fields(st, buckets) ==
    EnsureAiInsight(EnsureAction(EnsureInsight(EnsureRiskLevel(EnsureRisk(
        EnsureSafeToSpend(st, buckets), buckets)), buckets), buckets))

\* What the pipeline has done when the router's completed entry is to be
\* appended: lines 84-162.
Routed(st, decision) ==
    Put(Put(Put(st, "agent_activity", <<Activity("AgentRouter", "running")>>),
            "agentic_mode", "routed"),
            "routing_decision", decision)

\* Lines 77-173: the router is asked, its decision stored and announced.
\* ', '.join(agents_to_run) raises when an item of the list is not a string.
RoutedRoute ==
    /\ mode = "routed" /\ pc = "route"
    /\ \E reply \in RouterReplies :
          \E st \in {Routed(state, decide_agents(reply))} :
             IF "agents_to_run_obj" \in DOMAIN st["routing_decision"]
             THEN /\ state' = st
                  /\ raised' = "TypeError"
                  /\ pc' = "done"
                  /\ UNCHANGED pending
             ELSE /\ state' = Put(st, "agent_activity",
                                  Append(st["agent_activity"],
                                         [agent |-> "AgentRouter", status |-> "completed",
                                          reasoning |-> st["routing_decision"]["reasoning"],
                                          urgency |-> st["routing_decision"]["urgency"]]))
                  /\ pending' = st["routing_decision"]["agents_to_run"]
                  /\ pc' = "specialists"
                  /\ UNCHANGED raised
    /\ UNCHANGED <<mode, runs, user_id, db, tool_calls_log, tools_called_count, result,
                   iteration, analysis_complete, tool_call_count, turn_msgs,
                   enhancedVars, odd>>

\* Variant: a specialist that raises ends the walk.
RoutedSpecialist_Abort ==
    /\ mode = "routed" /\ pc = "specialists" /\ pending # <<>>
    /\ state' = Put(state, "agent_activity",
                    state["agent_activity"] \o <<Activity(Head(pending), "running"),
                                                 Activity(Head(pending), "error")>>)
    /\ pending' = <<>>
    /\ UNCHANGED <<mode, runs, user_id, db, tool_calls_log, tools_called_count, result, raised,
                   pc, iteration, analysis_complete, tool_call_count, turn_msgs,
                   enhancedVars, odd>>

\* One pass of "for agent_name in agents_to_run": a name that is not in
\* AGENT_MAP is skipped; a specialist that raises leaves an error entry.
RoutedSpecialist ==
    /\ mode = "routed" /\ pc = "specialists" /\ pending # <<>>
    /\ IF Head(pending) \notin AGENT_MAP
       THEN UNCHANGED state
       ELSE \E outcome \in SpecialistOutcomes :
               \E st \in {IF outcome = "completed"
                          THEN SpecialistResult(Head(pending), state) ELSE state} :
                  state' = Put(st, "agent_activity",
                               state["agent_activity"]
                                  \o <<Activity(Head(pending), "running"),
                                       Activity(Head(pending), outcome)>>)
    /\ pending' = Tail(pending)
    /\ UNCHANGED <<mode, runs, user_id, db, tool_calls_log, tools_called_count, result, raised,
                   pc, iteration, analysis_complete, tool_call_count, turn_msgs,
                   enhancedVars, odd>>

\* Lines 215-222: the execution time, the required fields, return state.
RoutedFinish ==
    /\ mode = "routed" /\ pc = "specialists" /\ pending = <<>>
    /\ state' = ensure_required_fields(Put(state, "execution_time_ms", 1),
                                       Get(state, "bucket_balances", EmptyDict))
    /\ pc' = "done"
    /\ UNCHANGED <<mode, runs, user_id, db, tool_calls_log, tools_called_count, result, raised,
                   iteration, analysis_complete, tool_call_count, pending, turn_msgs,
                   enhancedVars, odd>>

InitRouted ==
    /\ mode = "routed"
    /\ user_id = "u1"
    /\ pc = "route"
    /\ InitCommon

NextRouted ==
    \/ RoutedRoute
    \/ RoutedSpecialist
    \/ RoutedFinish

SpecRouted == InitRouted /\ [][NextRouted]_vars

-----------------------------------------------------------------------------
(* The analysis tools driven directly over a Session State: the goals, the *)
(* expenses and the income patterns a caller hands to the executor.        *)

\* Calls of the analysis tools per executor.
MaxReads == 2

\* load_financial_context: a goal carries name, target_amount, current_amount
\* and target_date (None when the goal has none).
Goal(name, target, current) ==
    [name |-> name, target_amount |-> target, current_amount |-> current]
Bike == Put(Goal("bike", 15000, 4500), "target_in_days", 45)
Phone == Put(Goal("phone", 7700, 500), "target_in_days", 30)
Trip == Goal("trip", 5000, 200)
Fees == Put(Goal("fees", 3000, 0), "target_in_days", -2)
GoalLists == {<<>>, <<Bike>>, <<Phone>>, <<Trip>>, <<Fees>>, <<Bike, Phone>>}

\* income_patterns: None as the loader leaves it, the income analysis's
\* patterns, or no such key in a dict of the caller's own making.
IncomePatterns == {NoneValue, [weekday_average |-> 800], EmptyDict}

\* load_financial_context: an expense carries category, amount and spent_at.
\* A caller's own entry may carry date.  Both are in days before now.
Loaded(category, amount, days) ==
    [category |-> category, amount |-> amount, spent_at |-> days]
Dated(category, amount, days) ==
    [category |-> category, amount |-> amount, date |-> days]
ExpenseHistories ==
    {<<>>,
     <<Loaded("food", 1000, 9), Loaded("food", 1600, 2)>>,
     <<Dated("food", 1000, 9), Dated("food", 1600, 2)>>,
     <<Dated("food", 1000, 9), Dated("food", 1300, 2)>>,
     <<Dated("food", 1000, 9), Dated("food", 1500, 2)>>,
     <<Dated("fuel", 400, 1)>>,
     <<Dated("food", 200, 9), Dated("food", 325, 2)>>,
     <<Dated("food", 1000, 9), [category |-> "food", amount |-> 1600, date_str |-> "soon"]>>,
     <<Dated("food", 600, 10), Dated("food", 400, 8), Dated("fuel", 200, 12),
       Dated("food", 1000, 3), Dated("fuel", 350, 1), Dated("food", 600, 0)>>}

\* load_financial_context: the obligations of the user; the risks are those
\* an earlier analysis left in the state.
Obligations == <<[name |-> "rent", amount |-> 8000, due_day |-> 5, bucket_name |-> "rent"],
                 [name |-> "emi", amount |-> 2500, due_day |-> 12, bucket_name |-> "emi"]>>
ObligationRisks == <<[obligation_name |-> "rent", shortfall_amount |-> 3000,
                      days_until_due |-> 4, risk_level |-> "high"]>>

AnalysisStates ==
    {IF patterns = EmptyDict
     THEN [bucket_balances |-> InitialBuckets, goals |-> goals, expense_history |-> expenses,
           obligations |-> Obligations, obligation_risks |-> ObligationRisks]
     ELSE [bucket_balances |-> InitialBuckets, goals |-> goals, expense_history |-> expenses,
           obligations |-> Obligations, obligation_risks |-> ObligationRisks,
           income_patterns |-> patterns]
       : goals \in GoalLists, expenses \in ExpenseHistories, patterns \in IncomePatterns}

AnalysisCalls ==
    {Call("calculate_goal_trajectory", [goal_name |-> "all"]),
     Call("calculate_goal_trajectory", [goal_name |-> "bike"]),
     Call("analyze_spending_pattern", [category |-> "all"]),
     Call("analyze_spending_pattern", [category |-> "fuel"]),
     Call("analyze_spending_pattern", [category |-> "all", comparison_days |-> 3])}

\* The tools that only read, with the kinds of scenario of simulate_scenario
\* and one that is none of them.
ReadOnlyCalls ==
    {Call(name, EmptyDict) :
        name \in {"get_bucket_balances", "get_upcoming_obligations", "get_income_history",
                  "get_expense_history", "get_goals_progress", "get_past_decisions",
                  "calculate_shortfall"}}
      \cup {Call("simulate_scenario", [scenario_type |-> "extra_income", amount |-> 1000]),
            Call("simulate_scenario", [scenario_type |-> "unexpected_expense", amount |-> 900]),
            Call("simulate_scenario", [scenario_type |-> "skip_work", days |-> 2]),
            Call("simulate_scenario", [scenario_type |-> "advance_repayment", amount |-> 300]),
            Call("simulate_scenario", [scenario_type |-> "lottery", amount |-> 100])}

InitAnalysis ==
    /\ mode = "analysis"
    /\ user_id = "u1"
    /\ pc = "exec"
    /\ state \in AnalysisStates
    /\ db = Database(<<>>)
    /\ tool_calls_log = <<>> /\ tools_called_count = 0
    /\ result = EmptyDict /\ raised = ""
    /\ iteration = 0 /\ analysis_complete = FALSE /\ tool_call_count = 0
    /\ pending = <<>> /\ turn_msgs = <<>>
    /\ reflections = <<>> /\ unexpected_findings = <<>> /\ completed_steps = <<>>
    /\ proposed_recommendation = "" /\ debate = NoDebate /\ last_revision_check = 0
    /\ odd = 0
    /\ runs = <<>>

ExecuteAnalysis ==
    /\ mode = "analysis"
    /\ tools_called_count < MaxReads
    /\ \E call \in AnalysisCalls \cup ReadOnlyCalls :
          \E out \in {Execute(state, db, user_id, tools_called_count, tool_calls_log,
                               call.name, call.arguments, "ok")} :
             /\ state' = out.state
             /\ db' = out.db
             /\ tools_called_count' = out.tools_called_count
             /\ tool_calls_log' = out.tool_calls_log
             /\ result' = out.result
             /\ raised' = out.exc
    /\ UNCHANGED <<mode, runs, user_id, loopVars, enhancedVars, odd>>

NextAnalysis == ExecuteAnalysis

SpecAnalysis == InitAnalysis /\ [][NextAnalysis]_vars

-----------------------------------------------------------------------------
(* Concurrent runs of one owner.  Each run has its own ToolExecutor and     *)
(* Session State and calls update_bucket_balance_persistent once; the runs  *)
(* share the Bucket collection.  The handler gives up control at its two    *)
(* awaits, Bucket.find_one and bucket.save, and nowhere else.               *)

\* Runs of one owner at the same time.
MaxRuns == 2

RaceCalls ==
    UpdateCalls \cup {Call("update_bucket_balance_persistent",
                           [bucket_name |-> "emergency", amount |-> 200, reason |-> "income"])}

\* A run that has not called yet.  bucket is the Bucket document find_one
\* returned to this run, read the balance it held when it was found.
IdleRun == [pc |-> "idle", state |-> InitialState, args |-> EmptyDict,
            bucket |-> EmptyDict, read |-> 0, result |-> EmptyDict]

\* Lines 1021-1031: the in-memory update, up to the first await.
RaceBegin(run, args) ==
    LET bucket_name == Get(args, "bucket_name", "None")
        st1 == IF "bucket_balances" \in DOMAIN run.state
               THEN run.state
               ELSE Put(run.state, "bucket_balances", EmptyDict)
        current == Get(st1["bucket_balances"], bucket_name, 0)
    IN  [run EXCEPT !.pc = "find", !.args = args,
                    !.state = Put(st1, "bucket_balances",
                                  Put(st1["bucket_balances"], bucket_name,
                                      current + Get(args, "amount", 0))),
                    !.result = [previous_balance |-> current]]

\* Lines 1051-1072: the change is tracked and the result returned.
RaceReturn(run, persisted) ==
    LET bucket_name == Get(run.args, "bucket_name", "None")
        amount == Get(run.args, "amount", 0)
        new_balance == run.state["bucket_balances"][bucket_name]
    IN  [run EXCEPT !.pc = "done",
                    !.state = Put(@, "bucket_changes",
                                  Append(Get(@, "bucket_changes", <<>>),
                                         [bucket |-> bucket_name, change |-> amount,
                                          new_balance |-> new_balance,
                                          persisted |-> persisted])),
                    !.result = [success |-> TRUE, bucket |-> bucket_name,
                                previous_balance |-> run.result["previous_balance"],
                                change |-> amount, new_balance |-> new_balance,
                                persisted_to_db |-> persisted]]

\* A run calls the handler: it runs up to "await Bucket.find_one", or to its
\* return when there is no owner id.
RaceCall(r) ==
    /\ mode = "race" /\ runs[r].pc = "idle"
    /\ \E call \in RaceCalls :
          \E run \in {RaceBegin(runs[r], call.arguments)} :
             runs' = [runs EXCEPT ![r] = IF user_id # "" THEN run
                                                         ELSE RaceReturn(run, FALSE)]
    /\ UNCHANGED <<mode, user_id, state, db, tool_calls_log, tools_called_count, result,
                   raised, loopVars, enhancedVars, odd>>

\* Bucket.find_one completes: it raised, found no document, or returned the
\* document as it is now; "bucket.current_balance += amount" changes this
\* run's copy, and the run goes on to "await bucket.save()".
RaceFind(r) ==
    /\ mode = "race" /\ runs[r].pc = "find"
    /\ \E env \in DbOutcomes :
          runs' = [runs EXCEPT ![r] =
                     IF env = "raise" \/ runs[r].args["bucket_name"] \notin DOMAIN db.buckets
                     THEN RaceReturn(runs[r], FALSE)
                     ELSE [runs[r] EXCEPT !.pc = "save",
                              !.read = db.buckets[runs[r].args["bucket_name"]],
                              !.bucket = [current_balance |->
                                             db.buckets[runs[r].args["bucket_name"]]
                                                + runs[r].args["amount"]]]]
    /\ UNCHANGED <<mode, user_id, state, db, tool_calls_log, tools_called_count, result,
                   raised, loopVars, enhancedVars, odd>>

\* Variant: the save adds the amount to the balance the collection holds.
RaceSave_Atomic(r) ==
    /\ mode = "race" /\ runs[r].pc = "save"
    /\ db' = [db EXCEPT !.buckets[runs[r].args["bucket_name"]] = @ + runs[r].args["amount"]]
    /\ runs' = [runs EXCEPT ![r] = RaceReturn(runs[r], TRUE)]
    /\ UNCHANGED <<mode, user_id, state, tool_calls_log, tools_called_count, result,
                   raised, loopVars, enhancedVars, odd>>

\* bucket.save() completes: it raised, or the collection holds this run's
\* copy of the document; the handler then runs to its return.
RaceSave(r) ==
    /\ mode = "race" /\ runs[r].pc = "save"
    /\ \E env \in DbOutcomes :
          /\ db' = IF env = "raise" THEN db
                   ELSE [db EXCEPT !.buckets[runs[r].args["bucket_name"]] =
                            runs[r].bucket["current_balance"]]
          /\ runs' = [runs EXCEPT ![r] = RaceReturn(runs[r], env = "ok")]
    /\ UNCHANGED <<mode, user_id, state, tool_calls_log, tools_called_count, result,
                   raised, loopVars, enhancedVars, odd>>

InitRace ==
    /\ mode = "race"
    /\ user_id \in {"", "u1"}
    /\ pc = "race"
    /\ state = InitialState
    /\ db = Database(<<>>)
    /\ tool_calls_log = <<>> /\ tools_called_count = 0
    /\ result = EmptyDict /\ raised = ""
    /\ iteration = 0 /\ analysis_complete = FALSE /\ tool_call_count = 0
    /\ pending = <<>> /\ turn_msgs = <<>>
    /\ reflections = <<>> /\ unexpected_findings = <<>> /\ completed_steps = <<>>
    /\ proposed_recommendation = "" /\ debate = NoDebate /\ last_revision_check = 0
    /\ odd = 0
    /\ runs = [r \in 1..MaxRuns |-> IdleRun]

NextRace ==
    \/ \E r \in 1..MaxRuns : RaceCall(r)
    \/ \E r \in 1..MaxRuns : RaceFind(r)
    \/ \E r \in 1..MaxRuns : RaceSave(r)

SpecRace == InitRace /\ [][NextRace]_vars

-----------------------------------------------------------------------------
(* The bucket tools replayed: one executor, any sequence of                *)
(* allocate_to_bucket and update_bucket_balance_persistent calls, the same *)
(* call any number of times, with balance reads in between.                *)

BucketCalls == AllocateCalls \cup UpdateCalls \cup {MissingFieldCall, GetBalancesCall}

InitBuckets ==
    /\ mode = "buckets"
    /\ user_id \in {"", "u1"}
    /\ pc = "exec"
    /\ InitCommon

ExecuteBucketCall ==
    /\ mode = "buckets"
    /\ tools_called_count < MaxCalls
    /\ \E call \in BucketCalls, env \in DbOutcomes :
          /\ env = "raise" => call.name = "update_bucket_balance_persistent" /\ user_id # ""
          /\ \E out \in {Execute(state, db, user_id, tools_called_count, tool_calls_log,
                                  call.name, call.arguments, env)} :
                 /\ state' = out.state
                 /\ db' = out.db
                 /\ tools_called_count' = out.tools_called_count
                 /\ tool_calls_log' = out.tool_calls_log
                 /\ result' = out.result
                 /\ raised' = out.exc
    /\ UNCHANGED <<mode, runs, user_id, loopVars, enhancedVars, odd>>

NextBuckets == ExecuteBucketCall

SpecBuckets == InitBuckets /\ [][NextBuckets]_vars

-----------------------------------------------------------------------------
(* The expense endpoint, POST /expenses: add_expense with its cascade      *)
(* deduction.  Here db holds the owner's active Bucket documents, in the   *)
(* order Bucket.find returns them, and the Expense collection; runs is the *)
(* sequence of requests handled so far.                                    *)

\* Requests of one client in a row.
MaxExpenses == 2

DEDUCTION_PRIORITY == <<"discretionary", "flex", "savings", "fuel", "emergency">>

PROTECTED_BUCKETS == {"rent", "emi", "tax"}

\* category_bucket_map.get(category.lower(), "discretionary"), for the
\* categories requested here in lower case.
category_bucket_map(category) ==
    CASE category \in {"fuel", "petrol"} -> "fuel"
      [] category \in {"medical", "repair"} -> "emergency"
      [] OTHER -> "discretionary"

\* The positions in all_buckets of the documents that hold the names, in the
\* order of the names; bucket_map keeps the last document of a name.
RECURSIVE PositionsOf(_, _)
PositionsOf(all_buckets, names) ==
    IF names = <<>> THEN <<>>
    ELSE LET here == {i \in DOMAIN all_buckets : all_buckets[i].name = Head(names)}
         IN  (IF here = {} THEN <<>>
              ELSE <<CHOOSE i \in here : \A j \in here : j <= i>>)
             \o PositionsOf(all_buckets, Tail(names))

\* The other non-protected buckets, in collection order.
RECURSIVE OtherPositions(_, _, _)
OtherPositions(all_buckets, ordered, i) ==
    IF i > Len(all_buckets) THEN ordered
    ELSE OtherPositions(all_buckets,
                        IF /\ \A k \in DOMAIN ordered : ordered[k] # i
                           /\ all_buckets[i].name \notin PROTECTED_BUCKETS
                        THEN Append(ordered, i) ELSE ordered,
                        i + 1)

\* ordered_buckets, as positions in all_buckets: the primary bucket first if
\* it exists and is not protected, then the priority list without the
\* primary name, then every other non-protected bucket.
OrderedBuckets(all_buckets, primary_bucket_name) ==
    LET primary == IF primary_bucket_name \notin PROTECTED_BUCKETS
                   THEN PositionsOf(all_buckets, <<primary_bucket_name>>)
                   ELSE <<>>
        priority == PositionsOf(all_buckets,
                        SelectSeq(DEDUCTION_PRIORITY,
                                  LAMBDA n : n # primary_bucket_name))
    IN  OtherPositions(all_buckets, primary \o priority, 1)

\* A variant that takes the whole remainder from the bucket.
Deduct_Whole(balance, remaining_to_deduct) == remaining_to_deduct

\* deduct_amount = min(bucket.current_balance, remaining_to_deduct).
Deduct(balance, remaining_to_deduct) ==
    IF balance < remaining_to_deduct THEN balance ELSE remaining_to_deduct

\* The cascade loop: each bucket of the order is updated and saved in turn.
RECURSIVE Cascade(_, _, _, _)
Cascade(buckets, ordered, remaining_to_deduct, deductions) ==
    IF ordered = <<>> \/ remaining_to_deduct <= 0
    THEN [buckets |-> buckets, remaining_to_deduct |-> remaining_to_deduct,
          deductions |-> deductions]
    ELSE LET i == Head(ordered)
             old_balance == buckets[i].current_balance
             deduct_amount == Deduct(old_balance, remaining_to_deduct)
         IN  IF old_balance <= 0
             THEN Cascade(buckets, Tail(ordered), remaining_to_deduct, deductions)
             ELSE Cascade([buckets EXCEPT ![i].current_balance = old_balance - deduct_amount],
                          Tail(ordered), remaining_to_deduct - deduct_amount,
                          Append(deductions,
                                 [bucket_name |-> buckets[i].name,
                                  amount_deducted |-> deduct_amount,
                                  old_balance |-> old_balance,
                                  new_balance |-> old_balance - deduct_amount]))

RECURSIVE SumBalances(_, _)
SumBalances(buckets, names) ==
    IF buckets = <<>> THEN 0
    ELSE (IF Head(buckets).name \in names THEN Head(buckets).current_balance ELSE 0)
         + SumBalances(Tail(buckets), names)

\* add_expense on the collections d for one request: what it leaves in the
\* collections, and its response or the exception it raised.
add_expense(d, expense_data) ==
    LET primary_bucket_name ==
            IF expense_data.bucket_name # "" THEN expense_data.bucket_name
            ELSE category_bucket_map(expense_data.category)
        all_buckets == d.buckets
        names == {all_buckets[i].name : i \in DOMAIN all_buckets}
        total_available == SumBalances(all_buckets, names \ PROTECTED_BUCKETS)
        total_all == SumBalances(all_buckets, names)
        expense_amount == expense_data.amount
        is_overspending == expense_amount > total_available
        uncovered_amount == IF expense_amount - total_available > 0
                            THEN expense_amount - total_available ELSE 0
        out == Cascade(all_buckets, OrderedBuckets(all_buckets, primary_bucket_name),
                       expense_amount, <<>>)
        expense == [category |-> expense_data.category, amount |-> expense_amount,
                    bucket_name |-> primary_bucket_name]
    IN  IF all_buckets = <<>>
        THEN [db |-> d, result |-> EmptyDict, exc |-> "HTTPException"]
        ELSE IF is_overspending /\ ~expense_data.force
        THEN [db |-> d,
              result |-> [success |-> FALSE, warning |-> TRUE,
                          total_available |-> total_available,
                          total_all_buckets |-> total_all,
                          shortfall |-> uncovered_amount],
              exc |-> ""]
        ELSE [db |-> [d EXCEPT !.buckets = out.buckets,
                               !.expenses = Append(@, expense)],
              result |-> [success |-> TRUE,
                          expense_amount |-> expense_amount,
                          total_deducted |-> expense_amount - out.remaining_to_deduct,
                          uncovered_amount |-> out.remaining_to_deduct,
                          is_overspending |-> is_overspending,
                          deductions |-> out.deductions,
                          new_total_balance |->
                              SumBalances(out.buckets, names),
                          new_safe_to_spend |->
                              SumBalances(out.buckets, {"discretionary", "flex"})],
              exc |-> ""]

\* The Bucket collections of the owners: none, protected buckets only, the
\* usual set, and one with an overdrawn bucket and a bucket outside the
\* priority list.
BucketCollections ==
    LET Bucket(name, balance) == [name |-> name, current_balance |-> balance]
    IN
    { <<>>,
      <<Bucket("rent", 5000), Bucket("tax", 400)>>,
      <<Bucket("rent", 5000), Bucket("emergency", 500), Bucket("discretionary", 300)>>,
      <<Bucket("flex", -200), Bucket("gifts", 100), Bucket("emi", 1000),
        Bucket("discretionary", 500)>> }

\* ExpenseCreate bodies: amount > 0; bucket_name "" is None.
ExpenseRequests ==
    { [category |-> c, amount |-> a, bucket_name |-> b, force |-> f] :
        c \in {"food", "medical"}, a \in {200, 700, 6000},
        b \in {"", "rent", "gifts"}, f \in BOOLEAN }

InitExpenses ==
    /\ mode = "expenses"
    /\ user_id = "u1"
    /\ pc = "exec"
    /\ state = InitialState
    /\ db \in {[buckets |-> b, expenses |-> <<>>] : b \in BucketCollections}
    /\ tool_calls_log = <<>>
    /\ tools_called_count = 0
    /\ result = EmptyDict
    /\ raised = ""
    /\ iteration = 0
    /\ analysis_complete = FALSE
    /\ tool_call_count = 0
    /\ pending = <<>>
    /\ turn_msgs = <<>>
    /\ reflections = <<>>
    /\ unexpected_findings = <<>>
    /\ completed_steps = <<>>
    /\ proposed_recommendation = ""
    /\ debate = NoDebate
    /\ last_revision_check = 0
    /\ odd = 0
    /\ runs = <<>>

AddExpense ==
    /\ mode = "expenses"
    /\ Len(runs) < MaxExpenses
    /\ \E expense_data \in ExpenseRequests :
          \E out \in {add_expense(db, expense_data)} :
             /\ db' = out.db
             /\ result' = out.result
             /\ raised' = out.exc
             /\ runs' = Append(runs, expense_data)
    /\ UNCHANGED <<mode, user_id, state, tool_calls_log, tools_called_count,
                   loopVars, enhancedVars, odd>>

NextExpenses == AddExpense

SpecExpenses == InitExpenses /\ [][NextExpenses]_vars

-----------------------------------------------------------------------------
(* The advance endpoints, POST /advances/request and                       *)
(* POST /advances/{advance_id}/repay.  Here db holds the owner's           *)
(* MicroAdvance documents, identified by their position, and the sum of    *)
(* the owner's IncomeEvents of the last seven days; runs is the sequence   *)
(* of requests handled so far.                                             *)

\* Requests of one client in a row.
MaxAdvanceCalls == 4

MAX_ACTIVE_ADVANCES == 3
MIN_ADVANCE_AMOUNT == 100
MAX_ADVANCE_AMOUNT == 5000

\* AdvanceService.get_active_advances: the positions of the owner's
\* advances with status "accepted" or "active".
get_active_advances(d) ==
    {i \in DOMAIN d.advances : d.advances[i].status \in {"accepted", "active"}}

RECURSIVE OutstandingOf(_, _)
OutstandingOf(advances, ids) ==
    IF ids = {} THEN 0
    ELSE LET i == CHOOSE x \in ids : TRUE
         IN  advances[i].total_repayable - advances[i].amount_repaid
             + OutstandingOf(advances, ids \ {i})

calculate_available_advance(d) ==
    LET active_advances == get_active_advances(d)
        outstanding == OutstandingOf(d.advances, active_advances)
        weekly_income == IF d.recent_income < 1000 THEN 15000 ELSE d.recent_income
        \* weekly_income * MAX_ADVANCE_PCT_OF_WEEKLY (0.40); the incomes here
        \* are multiples of 10
        pct_of_weekly == (weekly_income * 4) \div 10
        max_total_allowed == IF pct_of_weekly < MAX_ADVANCE_AMOUNT
                             THEN pct_of_weekly ELSE MAX_ADVANCE_AMOUNT
        left == IF max_total_allowed - outstanding > 0
                THEN max_total_allowed - outstanding ELSE 0
        \* round(available_amount, -2)
        available_amount == 100 * RoundHalfEven(left, 100)
        refused == [max_amount |-> 0, max_total_allowed |-> max_total_allowed,
                    outstanding |-> outstanding, can_request |-> FALSE]
    IN  IF Cardinality(active_advances) >= MAX_ACTIVE_ADVANCES THEN refused
        ELSE IF available_amount < MIN_ADVANCE_AMOUNT THEN refused
        ELSE [max_amount |-> available_amount, max_total_allowed |-> max_total_allowed,
              outstanding |-> outstanding, can_request |-> TRUE]

\* request_advance for a request of a whole number of hundreds, or of less
\* than 100: fee = round(amount * 0.01, 2) is amount / 100.
request_advance(d, request) ==
    LET available == calculate_available_advance(d)
        fee == request.amount \div 100
        advance == [principal |-> request.amount, fee |-> fee,
                    total_repayable |-> request.amount + fee,
                    amount_repaid |-> 0, status |-> "active"]
    IN  IF \/ ~available.can_request
           \/ request.amount > available.max_amount
           \/ request.amount < 100
        THEN [db |-> d, result |-> EmptyDict, exc |-> "HTTPException"]
        ELSE [db |-> [d EXCEPT !.advances = Append(@, advance)],
              result |-> [success |-> TRUE,
                          advance |-> [id |-> Len(d.advances) + 1,
                                       amount |-> advance.principal,
                                       fee |-> advance.fee,
                                       total_repayment |-> advance.total_repayable]],
              exc |-> ""]

\* repay_advance; advance_id 0 is a string that is no ObjectId.
repay_advance(d, advance_id) ==
    IF advance_id = 0 \/ advance_id \notin DOMAIN d.advances
       \/ d.advances[advance_id].status = "repaid"
    THEN [db |-> d, result |-> EmptyDict, exc |-> "HTTPException"]
    ELSE [db |-> [d EXCEPT !.advances[advance_id].status = "repaid",
                           !.advances[advance_id].amount_repaid =
                               d.advances[advance_id].total_repayable],
          result |-> [success |-> TRUE],
          exc |-> ""]

InitAdvances ==
    /\ mode = "advances"
    /\ user_id = "u1"
    /\ pc = "exec"
    /\ state = InitialState
    /\ db \in {[advances |-> <<>>, recent_income |-> w] : w \in {0, 5000, 20000}}
    /\ tool_calls_log = <<>>
    /\ tools_called_count = 0
    /\ result = EmptyDict
    /\ raised = ""
    /\ iteration = 0
    /\ analysis_complete = FALSE
    /\ tool_call_count = 0
    /\ pending = <<>>
    /\ turn_msgs = <<>>
    /\ reflections = <<>>
    /\ unexpected_findings = <<>>
    /\ completed_steps = <<>>
    /\ proposed_recommendation = ""
    /\ debate = NoDebate
    /\ last_revision_check = 0
    /\ odd = 0
    /\ runs = <<>>

RequestAdvance ==
    /\ mode = "advances"
    /\ Len(runs) < MaxAdvanceCalls
    /\ \E amount \in {50, 500, 1000, 5000} :
          \E out \in {request_advance(db, [amount |-> amount])} :
             /\ db' = out.db
             /\ result' = out.result
             /\ raised' = out.exc
             /\ runs' = Append(runs, [request |-> "request", amount |-> amount])
    /\ UNCHANGED <<mode, user_id, state, tool_calls_log, tools_called_count,
                   loopVars, enhancedVars, odd>>

RepayAdvance ==
    /\ mode = "advances"
    /\ Len(runs) < MaxAdvanceCalls
    /\ \E advance_id \in 0..MaxAdvanceCalls :
          \E out \in {repay_advance(db, advance_id)} :
             /\ db' = out.db
             /\ result' = out.result
             /\ raised' = out.exc
             /\ runs' = Append(runs, [request |-> "repay", advance_id |-> advance_id])
    /\ UNCHANGED <<mode, user_id, state, tool_calls_log, tools_called_count,
                   loopVars, enhancedVars, odd>>

NextAdvances == RequestAdvance \/ RepayAdvance

SpecAdvances == InitAdvances /\ [][NextAdvances]_vars

-----------------------------------------------------------------------------
(* Both control loops *)

Init == InitReact \/ InitEnhanced
Next == NextReact \/ NextEnhanced
Spec == Init /\ [][Next]_vars

-----------------------------------------------------------------------------
(* run_daily_agents: the summary the endpoint returns for the Session      *)
(* State a run handed back (the fields about the run's outcome).           *)

run_daily_summary(res) ==
    [success |-> TRUE,
     react_iterations |-> Get(res, "react_iterations", NoneValue),
     total_tool_calls |-> Get(res, "total_tool_calls", Len(Get(res, "tool_calls_log", <<>>))),
     tool_calls_log |-> Get(res, "tool_calls_log", <<>>),
     key_insight |-> Get(res, "key_insight", ""),
     analysis_complete |-> Get(res, "analysis_complete", TRUE)]

-----------------------------------------------------------------------------
(* Properties *)

\* The control loop of the run was left.
LoopLeft == pc \in {"debate", "save", "done"}

\* The last entry of the call log.
LastLogged(log) == log[Len(log)]

\* What the mutators recorded for bucket b: allocations_made and bucket_changes.
RECURSIVE SumField(_, _, _)
SumField(seq, b, field) ==
    IF seq = <<>> THEN 0
    ELSE (IF Head(seq).bucket = b THEN Head(seq)[field] ELSE 0) + SumField(Tail(seq), b, field)
Recorded(st, b) ==
    SumField(Get(st, "allocations_made", <<>>), b, "amount")
        + SumField(Get(st, "bucket_changes", <<>>), b, "change")
BucketNames == {"emergency", "flex", "None"}

\* C1: the main loop of ReActAgent.run takes at most 15 turns, one oracle
\* request each (the Enhanced execution loop at most 20), and is left without
\* an exception; a run that leaves the loop with neither an error nor a
\* completion left it at the ceiling, and analysis_complete is not set in
\* the state.
C1_LoopBounded ==
    /\ mode = "react" => iteration <= 15
    /\ mode = "enhanced" => iteration <= 20
    /\ raised # "" => (mode = "enhanced" /\ pc = "done" /\ debate # NoDebate)
    /\ (LoopLeft /\ ~analysis_complete /\ "agent_error" \notin DOMAIN state) =>
          /\ state["react_iterations"] = (IF mode = "react" THEN 15 ELSE 20)
          /\ "analysis_complete" \notin DOMAIN state

C1_CeilingReached ==
    /\ mode = "react" /\ pc = "done" /\ raised = ""
    /\ Get(state, "react_iterations", 0) = 15
    /\ Get(state, "total_tool_calls", 0) >= 15
    /\ ~analysis_complete
    /\ "analysis_complete" \notin DOMAIN state
    /\ "agent_error" \notin DOMAIN state

C3_AcceptedAfterFiveOthers ==
    "analysis_complete" \in DOMAIN state =>
        Cardinality({i \in DOMAIN tool_calls_log :
                        tool_calls_log[i].tool # "complete_analysis"}) >= 5

\* C4: a get_bucket_balances reports every bucket as its balance at the start
\* of the run plus what allocate_to_bucket and update_bucket_balance_persistent
\* added to it since, and the total as the starting total plus all of it.
C4_ReadYourWrites ==
    "buckets" \in DOMAIN result =>
        /\ \A b \in BucketNames \cup DOMAIN result["buckets"] :
              Get(result["buckets"], b, 0) = Get(InitialBuckets, b, 0) + Recorded(state, b)
        /\ result["total"] = SumValues(InitialBuckets)
                                + Recorded(state, "emergency") + Recorded(state, "flex")
                                + Recorded(state, "None")

C4_ReadAfterWrite ==
    /\ "buckets" \in DOMAIN result
    /\ Recorded(state, "emergency") # 0
    /\ result["buckets"]["emergency"] = 500 + Recorded(state, "emergency")
    /\ LastLogged(tool_calls_log).sequence >= 3

\* C5: when the oracle request of a turn of ReActAgent.run fails, the loop is
\* left at once and run returns: agent_error holds the reason, nothing is
\* executed and nothing requested afterwards, and what the tools did before
\* is in the returned state.
C5_OracleFailureEndsRun ==
    [][/\ pc # "done"
       /\ ("agent_error" \notin DOMAIN state
           /\ Get(state', "agent_error", "") = "oracle failure")
          => /\ pc' = "done" /\ raised' = ""
             /\ iteration' = iteration + 1
             /\ tool_calls_log' = tool_calls_log /\ tool_call_count' = tool_call_count
             /\ tools_called_count' = tools_called_count /\ db' = db
             /\ \A k \in DOMAIN state : state'[k] = state[k]
             /\ state'["tool_calls_log"] = tool_calls_log
             /\ state'["react_iterations"] = iteration'
             /\ state'["total_tool_calls"] = tool_call_count]_vars

C5_FailedAfterTools ==
    /\ mode = "react" /\ pc = "done" /\ raised = ""
    /\ Get(state, "agent_error", "") = "oracle failure"
    /\ Get(state, "react_iterations", 0) >= 3
    /\ Len(Get(state, "tool_calls_log", <<>>)) >= 2

\* C6: every ToolExecutor.execute appends one entry to the call log, whatever
\* the outcome: the log keeps its entries, entry i has sequence number i, and
\* tools_called_count is the length of the log.
C6_EveryCallLogged ==
    [][/\ Len(tool_calls_log') = Len(tool_calls_log) + 1
       /\ SubSeq(tool_calls_log', 1, Len(tool_calls_log)) = tool_calls_log
       /\ \A i \in DOMAIN tool_calls_log' : tool_calls_log'[i].sequence = i
       /\ tools_called_count' = Len(tool_calls_log')]_vars

C6_LoggedThoughRaised ==
    /\ raised = "TypeError"
    /\ Len(tool_calls_log) >= 2
    /\ LastLogged(tool_calls_log).tool = "allocate_to_bucket"
    /\ tools_called_count = Len(tool_calls_log)

\* C7: update_bucket_balance_persistent does not raise when the persistence
\* layer does; when it returns persisted_to_db false it returns success, has
\* added the amount to the in-memory balance, has appended one bucket_changes
\* entry with persisted false, and the collection is as it was.
C7_WriteThroughFailure ==
    [][LET entry == LastLogged(tool_calls_log')
       IN  /\ raised' \in {"", "TypeError"}
           /\ (/\ entry.tool = "update_bucket_balance_persistent"
               /\ raised' = ""
               /\ ~result'["persisted_to_db"])
              => LET b == entry.arguments["bucket_name"]
                     a == entry.arguments["amount"]
                     before == Get(state["bucket_balances"], b, 0)
                 IN  /\ result'["success"]
                     /\ state'["bucket_balances"][b] = before + a
                     /\ state'["bucket_changes"] =
                           Append(Get(state, "bucket_changes", <<>>),
                                  [bucket |-> b, change |-> a, new_balance |-> before + a,
                                   persisted |-> FALSE])
                     /\ db' = db]_vars

C7_PersistenceRaised ==
    /\ user_id = "u1"
    /\ raised = ""
    /\ "persisted_to_db" \in DOMAIN result /\ ~result["persisted_to_db"]
    /\ result["bucket"] = "emergency"
    /\ state["bucket_balances"]["emergency"] = 400
    /\ db.buckets["emergency"] = 500

\* C8: ToolExecutor.execute of a name that is not in the catalogue does not
\* raise: it returns {error: "Unknown tool: <name>"}, leaves the state as it
\* was, and counts and logs the call.
C8_UnknownTool ==
    [][LET entry == LastLogged(tool_calls_log')
       IN  entry.tool \notin ToolCatalogue
           => /\ raised' = ""
              /\ result' = [error |-> "Unknown tool: " \o entry.tool]
              /\ state' = state /\ db' = db
              /\ tools_called_count' = tools_called_count + 1
              /\ Len(tool_calls_log') = Len(tool_calls_log) + 1]_vars

C8_UnknownToolCalled ==
    /\ result = [error |-> "Unknown tool: transfer_funds"]
    /\ raised = ""
    /\ tools_called_count >= 2
    /\ LastLogged(tool_calls_log).tool = "transfer_funds"
    /\ state = InitialState

\* C9: if the three advisor requests of the debate fail, the debate's
\* final_recommendation is the recommendation the debate was given, every
\* advisor is recorded with agreement_level 70, and run raises nothing.
C9_AdvisorsFailed ==
    (/\ pc = "done" /\ debate # NoDebate
     /\ \A i \in DOMAIN DEBATE_PERSPECTIVES : DEBATE_PERSPECTIVES[i] \in debate["failed"])
    => /\ raised = ""
       /\ "debate_result" \in DOMAIN state
       /\ Get(state["debate_result"], "final_recommendation", "") = debate["recommendation"]
       /\ \A i \in DOMAIN debate["perspectives"] :
             debate["perspectives"][i]["agreement_level"] = 70

\* C9, with the synthesis request failing too: if the three advisor requests
\* and the synthesis request of the debate fail, the debate's
\* final_recommendation is the recommendation the debate was given, every
\* advisor is recorded with agreement_level 70, the state's recommended action
\* is that recommendation, and run raises nothing.
C9_DebateRequestsFailed ==
    (/\ pc = "done" /\ debate # NoDebate
     /\ debate["failed"] = {"Conservative Advisor", "Growth Advisor", "Practical Advisor",
                            "synthesis"})
    => /\ raised = ""
       /\ "debate_result" \in DOMAIN state
       /\ Get(state["debate_result"], "final_recommendation", "") = debate["recommendation"]
       /\ Len(debate["perspectives"]) = 3
       /\ \A i \in DOMAIN debate["perspectives"] :
             /\ debate["perspectives"][i]["agreement_level"] = 70
             /\ debate["perspectives"][i]["advisor"] = DEBATE_PERSPECTIVES[i]
       /\ state["debate_result"]["individual_perspectives"] = debate["perspectives"]
       /\ state["recommended_action"] = debate["recommendation"]

C9_DebateFellBack ==
    /\ mode = "enhanced" /\ pc = "done" /\ raised = ""
    /\ debate # NoDebate
    /\ Cardinality(debate["failed"]) = 4
    /\ "debate_result" \in DOMAIN state
    /\ Get(state, "total_tool_calls", 0) >= 1

\* Arguments the tool's schema does not admit.
InvalidArguments(call) ==
    \/ ~call.arguments.ok
    \/ "amount_str" \in DOMAIN call.arguments.value
    \/ /\ call.name = "allocate_to_bucket"
       /\ ~({"bucket_name", "amount", "reason"} \subseteq DOMAIN call.arguments.value)

\* C10: a tool call of ReActAgent.run with invalid arguments (malformed JSON,
\* a required field left out, a value of the wrong type) gets an error object
\* as its tool message: the state is as it was, the run is not aborted and
\* nothing is raised.
C10_InvalidArgumentsRefused ==
    [][(pc = "tools" /\ pending # <<>> /\ InvalidArguments(Head(pending).call))
       => /\ pc' # "done" /\ raised' = ""
          /\ "agent_error" \notin DOMAIN state'
          /\ state' = state
          /\ turn_msgs' = Append(turn_msgs, ToolMsg(Head(pending).id, result'))
          /\ "error" \in DOMAIN result']_vars

\* A turn of the loop in which the oracle answered with a final message: the
\* turn is counted and the run is still at the head of the loop.
FinalMessageTurn == pc = "loop" /\ pc' = "loop" /\ iteration' = iteration + 1

\* C11: on a final message without tool calls the loop ends successfully if
\* and only if 5 or more tool invocations were executed so far in the run;
\* otherwise exactly one corrective user message is appended and the loop
\* goes on to another oracle turn unless the ceiling is reached.
C11_FinalMessageGate ==
    [][FinalMessageTurn =>
          /\ tool_call_count = Len(tool_calls_log)
          /\ tool_call_count' = tool_call_count
          /\ analysis_complete' <=> (tool_call_count >= 5)
          /\ "agent_error" \notin DOMAIN state' /\ raised' = ""
          /\ IF tool_call_count >= 5
             THEN turn_msgs' = <<>> /\ ~LoopCondition'
             ELSE /\ Len(turn_msgs') = 1 /\ turn_msgs'[1].role = "user"
                  /\ LoopCondition' <=> (iteration' < MaxIterations)]_vars

C11_CorrectedAtFour ==
    /\ pc = "loop" /\ ~analysis_complete
    /\ tool_call_count = 4 /\ Len(tool_calls_log) = 4
    /\ Len(turn_msgs) = 1 /\ turn_msgs[1].role = "user"
    /\ Get(state, "agent_final_message", "") = "Analysis done"

\* The tool messages of a turn, in the order they were appended.
IsToolMsg(m) == m.role = "tool"
ToolMsgs(msgs) == SelectSeq(msgs, IsToolMsg)

\* C12: the k tool calls of one oracle turn are executed one at a time in the
\* order returned: each call is logged and executed, its mutation applied
\* and its result appended as the tool message of that call, before the next
\* call is taken up, and the next oracle request is made only when all k
\* results are in the conversation.
C12_OneAtATime ==
    [][/\ pc' = "loop" => pending' = <<>>
       /\ (pc' \in {"loop", "tools"} /\ turn_msgs' # <<>> /\ turn_msgs'[1].role = "assistant")
          => LET done == ToolMsgs(turn_msgs')
             IN  /\ \A i \in DOMAIN done : done[i].tool_call_id = i
                 /\ Len(done) + Len(pending') = turn_msgs'[1].tool_calls
                 /\ \A i \in DOMAIN pending' : pending'[i].id = Len(done) + i
       /\ tool_call_count' # tool_call_count
          => /\ pc = "tools" /\ pending # <<>>
             /\ tool_call_count' = tool_call_count + 1
             /\ Len(tool_calls_log') = Len(tool_calls_log) + 1
             /\ LastLogged(tool_calls_log').tool = Head(pending).call.name
             /\ LastLogged(tool_calls_log').arguments = Head(pending).call.arguments.value
             /\ pc' \in {"loop", "tools"}
                => /\ pending' = Tail(pending)
                   /\ LET done == ToolMsgs(turn_msgs')
                      IN  done[Len(done)] = ToolMsg(Head(pending).id, result')]_vars

C12_SecondSawFirst ==
    /\ pc = "loop" /\ pending = <<>>
    /\ Len(turn_msgs) = 3 /\ turn_msgs[1] = [role |-> "assistant", tool_calls |-> 2]
    /\ turn_msgs[2].tool_call_id = 1 /\ Get(turn_msgs[2].content, "new_balance", 0) = 700
    /\ turn_msgs[3].tool_call_id = 2 /\ "buckets" \in DOMAIN turn_msgs[3].content
    /\ turn_msgs[3].content["buckets"]["emergency"] = 700

\* C13: with planning enabled the execution phase starts with a plan that
\* has a steps list to follow: the planner's, or the default 6 steps with
\* revision_count 0 when the planning request failed or its output was
\* malformed.
C13_PlanToFollow ==
    (mode = "enhanced" /\ pc = "loop" /\ iteration = 0)
    => /\ "execution_plan" \in DOMAIN state
       /\ "steps" \in DOMAIN state["execution_plan"]
       /\ Len(state["execution_plan"]["steps"]) > 0
       /\ state["execution_plan"]["revision_count"] = 0
       /\ "error" \in DOMAIN state["execution_plan"]
          => /\ state["execution_plan"]["steps"] = default_plan_steps
             /\ Len(state["execution_plan"]["steps"]) = 6

\* A reflection output with a field missing or of the wrong type.
MalformedReflection(r) ==
    \/ "success" \notin DOMAIN r
    \/ "confidence" \notin DOMAIN r
    \/ "anomalies_int" \in DOMAIN r

\* C14: reflection is advisory: after a tool call whose reflection request
\* failed or answered with malformed output, the reflection recorded is the
\* default {success: true, confidence: 0.5}; no reflection aborts the run or
\* sets agent_error, and the call's result and the calls still to execute
\* are what they would be without it.
C14_ReflectionAdvisory ==
    [][Len(reflections') = Len(reflections) + 1
       => LET r == reflections'[Len(reflections')]
          IN  /\ "agent_error" \notin DOMAIN state'
              /\ pc' \in {"loop", "tools"}
              /\ pending' = Tail(pending)
              /\ MalformedReflection(r) => r = FallbackReflection]_vars

\* C15: no answer to a debate request (a failure, unparsable content, JSON
\* with fields missing or of the wrong type such as a confidence that is not
\* a number) leaves the Enhanced run as an exception: the run ends with the
\* debate result in the state and the three perspectives recorded.
C15_DebateNeverRaises ==
    (mode = "enhanced" /\ pc = "done" /\ debate # NoDebate)
    => /\ raised = ""
       /\ "debate_result" \in DOMAIN state
       /\ Len(debate["perspectives"]) = Len(DEBATE_PERSPECTIVES)

\* The names of a list that are in AGENT_MAP, in the order of the list.
InAgentMap(name) == name \in AGENT_MAP
Known(names) == SelectSeq(names, InAgentMap)
\* The activity log after the two entries of the router.
SpecialistEntries(st) == SubSeq(st["agent_activity"], 3, Len(st["agent_activity"]))

\* C16: in routed mode the specialists named in agents_to_run run in the
\* order of the list: the activity log holds, for each name of the list that
\* is in AGENT_MAP and was visited, a running entry followed by one completed
\* or error entry of that specialist, in that order, and a specialist that
\* raised does not stop the ones after it.
C16_SpecialistsInOrder ==
    (mode = "routed" /\ pc \in {"specialists", "done"} /\ raised = "")
    => LET named == Known(state["routing_decision"]["agents_to_run"])
           entries == SpecialistEntries(state)
           left == Known(pending)
       IN  /\ Len(entries) = 2 * (Len(named) - Len(left))
           /\ pc = "done" => left = <<>>
           /\ \A i \in 1..(Len(named) - Len(left)) :
                 /\ entries[2 * i - 1] = Activity(named[i], "running")
                 /\ entries[2 * i] \in {Activity(named[i], "completed"),
                                        Activity(named[i], "error")}

C16_RanAfterError ==
    /\ mode = "routed" /\ pc = "done" /\ raised = ""
    /\ state["routing_decision"]["agents_to_run"]
          = <<"RISK_CALCULATOR", "TAX_ADVISOR", "INCOME_ANALYZER">>
    /\ SpecialistEntries(state)
          = <<Activity("RISK_CALCULATOR", "running"), Activity("RISK_CALCULATOR", "error"),
              Activity("INCOME_ANALYZER", "running"), Activity("INCOME_ANALYZER", "completed")>>
    /\ "income_patterns" \in DOMAIN state

\* C17: route_agents returns, without raising, a decision that holds
\* reasoning, urgency, agents_to_run and focus_message, and the routed
\* pipeline consumes that decision without raising.
C17_DecisionConsumed ==
    (mode = "routed" /\ pc # "route")
    => /\ \A k \in {"reasoning", "urgency", "agents_to_run", "focus_message"} :
             HasField(state["routing_decision"], k)
       /\ raised = ""


\* C18: learning is best-effort.  Whatever the ledger query and the pattern
\* request of phase 0 do, the run goes on to planning with state["learnings"]
\* set and nothing raised, and planning goes on to the loop; whatever the
\* insert of phase 4 does, the run returns its state as it was, nothing raised.
C18_LearningBestEffort ==
    [][/\ (mode = "enhanced" /\ pc = "learn")
            => /\ pc' = "plan" /\ raised' = ""
               /\ "learnings" \in DOMAIN state'
               /\ "agent_error" \notin DOMAIN state'
       /\ (mode = "enhanced" /\ pc = "plan")
            => /\ pc' = "loop" /\ raised' = ""
               /\ "execution_plan" \in DOMAIN state'
       /\ (mode = "enhanced" /\ pc = "save")
            => /\ pc' = "done" /\ raised' = ""
               /\ state' = state]_vars

\* The ledger query failed before the loop and the insert failed after it:
\* the run executed tools and returned.
C18_RanDespiteFailures ==
    /\ mode = "enhanced" /\ pc = "done" /\ raised = ""
    /\ "error" \in DOMAIN state["learnings"]
    /\ db.decisions = <<>>
    /\ "execution_plan" \in DOMAIN state
    /\ state["total_tool_calls"] >= 1

\* C19: a save_decision call returns saved without raising and appends the
\* returned decision to state["decisions_made"]; when the call wrote nothing
\* to the ledger, the returned decision carries persisted = false.
C19_SaveSignalsDurability ==
    [][(/\ mode = "exec"
        /\ Len(tool_calls_log') = Len(tool_calls_log) + 1
        /\ LastLogged(tool_calls_log').tool = "save_decision")
          => /\ raised' = ""
             /\ "saved" \in DOMAIN result' /\ result'["saved"]
             /\ state'["decisions_made"]
                   = Append(Get(state, "decisions_made", <<>>), result'["decision"])
             /\ db'.decisions = db.decisions
                   => /\ "persisted" \in DOMAIN result'["decision"]
                      /\ ~result'["decision"]["persisted"]]_vars

\* The entry get_past_decisions returns for a ledger document.
ReadFromLedger(d) == [type |-> d.type, value |-> d.value, agent |-> d.agent, date |-> d.age]

\* C20: whatever the executor holds, a get_past_decisions call does not raise
\* and changes neither the state nor the ledger; it answers memory_active =
\* true only with decisions that are documents of the ledger, read by an owner
\* whose query did not raise; and when the query raises or there is no owner
\* id it answers the session's past_decisions with memory_active = false.
C20_MemoryFlagHonest ==
    mode = "exec"
    => \A call \in GetPastDecisionsCalls, env \in DbOutcomes :
          LET out == Execute(state, db, user_id, tools_called_count, tool_calls_log,
                             call.name, call.arguments, env)
              past == Get(state, "past_decisions", <<>>)
          IN  /\ out.exc = ""
              /\ out.state = state /\ out.db = db
              /\ "memory_active" \in DOMAIN out.result
              /\ out.result["count"] >= Len(out.result["decisions"])
              /\ out.result["memory_active"]
                    => /\ user_id # "" /\ env = "ok"
                       /\ \A i \in DOMAIN out.result["decisions"] :
                             \E j \in DOMAIN db.decisions :
                                out.result["decisions"][i] = ReadFromLedger(db.decisions[j])
              /\ (user_id = "" \/ env = "raise")
                    => /\ ~out.result["memory_active"]
                       /\ out.result["decisions"] = LastN(past, DecisionLimit)
                       /\ out.result["count"] = Len(past)

\* An owner's ledger holds a decision, the query raised, and the call
\* answered from the session's memory.
C20_FellBack ==
    /\ mode = "exec" /\ user_id = "u1" /\ raised = ""
    /\ db.decisions # <<>>
    /\ tool_calls_log # <<>>
    /\ LastLogged(tool_calls_log).tool = "get_past_decisions"
    /\ "memory_active" \in DOMAIN result /\ ~result["memory_active"]
    /\ result["decisions"] = <<>> /\ result["count"] = 0

\* C21: the pipeline returns a state instead of raising, whatever the oracle
\* does, and in that state safe_to_spend, risk_score and risk_level are set
\* and key_insight and recommended_action are not empty.
C21_StateReturned ==
    (mode = "routed" /\ pc = "done")
    => /\ raised = ""
       /\ \A k \in {"safe_to_spend", "risk_score", "risk_level"} : k \in DOMAIN state
       /\ Get(state, "key_insight", "") # ""
       /\ Get(state, "recommended_action", "") # ""

\* The execution phase of the run has returned: ReActAgent.run, or
\* _execute_with_reflection before the debate touches the state.
ExecutionReturned ==
    \/ mode = "react" /\ pc = "done"
    \/ mode = "enhanced" /\ (pc = "debate" \/ (pc \in {"save", "done"} /\ debate = NoDebate))

FallbackInsight == "Analysis complete - aapka financial health check ho gaya hai."

\* C22: when the execution phase has returned and made at least one tool
\* call, key_insight is not empty: it is the insight of the accepted
\* complete_analysis call, or else the generic fallback insight.
C22_InsightAfterTools ==
    (ExecutionReturned /\ state["total_tool_calls"] >= 1)
    => /\ Get(state, "key_insight", "") # ""
       /\ IF Get(state, "analysis_complete", FALSE)
          THEN state["key_insight"] = LongInsight
          ELSE state["key_insight"] = FallbackInsight

\* The Enhanced loop aborted on an oracle failure after two tool calls.
C22_FallbackAfterAbort ==
    /\ mode = "enhanced" /\ pc = "debate"
    /\ "agent_error" \in DOMAIN state
    /\ state["total_tool_calls"] = 2
    /\ state["key_insight"] = FallbackInsight

\* Run r has returned from a call that reported the change of bucket b persisted.
Persisted(r, b) ==
    /\ runs[r].pc = "done"
    /\ runs[r].result["persisted_to_db"]
    /\ runs[r].result["bucket"] = b

\* C23: concurrent runs of one owner are not serialised on a bucket: the
\* persisted balance is always the one the collection started with or the
\* balance some run found plus that run's own amount (the last save wins),
\* so a run that found the balance before another run's save overwrites it.
C23_LastWriteWins ==
    mode = "race"
    => \A b \in DOMAIN db.buckets :
          \/ db.buckets[b] = InitialBuckets[b]
          \/ \E r \in DOMAIN runs :
                /\ Persisted(r, b)
                /\ db.buckets[b] = runs[r].read + runs[r].args["amount"]

\* Two runs changed the same bucket, both report persisted_to_db = true, and
\* the persisted balance is not the initial balance plus both amounts.
C23_UpdateLost ==
    /\ mode = "race"
    /\ \E r1, r2 \in DOMAIN runs :
          /\ r1 # r2
          /\ Persisted(r1, "emergency") /\ Persisted(r2, "emergency")
          /\ \A r \in DOMAIN runs \ {r1, r2} : runs[r].pc = "idle"
          /\ db.buckets["emergency"] # InitialBuckets["emergency"]
                                        + runs[r1].args["amount"] + runs[r2].args["amount"]

Abs(n) == IF n < 0 THEN 0 - n ELSE n

\* C24: each trajectory calculate_goal_trajectory reports has remaining =
\* target - current and a required daily saving of remaining / max(days to
\* target, 1), reported to the nearest integer, and is on_track exactly when
\* that rate is at most 30% of the average daily income, the rate of exactly
\* 30% included.
C24_OnTrackUpToThirtyPercent ==
    (/\ mode = "analysis" /\ tool_calls_log # <<>>
     /\ LastLogged(tool_calls_log).tool = "calculate_goal_trajectory"
     /\ "trajectories" \in DOMAIN result)
    => \A i \in DOMAIN result["trajectories"] :
          LET t == result["trajectories"][i]
              days == IF t.days_left > 1 THEN t.days_left ELSE 1
              avg_daily_income == Get(Get(state, "income_patterns", EmptyDict),
                                      "weekday_average", DefaultDailyIncome)
          IN  /\ t.remaining = t.target - t.current
              /\ 2 * Abs(t.daily_savings_needed * days - t.remaining) <= days
              /\ t.on_track <=> (10 * t.remaining <= 3 * avg_daily_income * days)

\* What was spent on category c between lo and hi days before now, by the
\* day each expense was made (date, or spent_at as the loader names it).
RECURSIVE SpentBetween(_, _, _, _)
SpentBetween(expenses, c, lo, hi) ==
    IF expenses = <<>> THEN 0
    ELSE LET e == Head(expenses)
             age == IF "date" \in DOMAIN e THEN e["date"] ELSE Get(e, "spent_at", UndatedDaysAgo)
         IN  (IF e["category"] = c /\ "date_str" \notin DOMAIN e /\ lo <= age /\ age < hi
              THEN e["amount"] ELSE 0)
             + SpentBetween(Tail(expenses), c, lo, hi)

\* C25: analyze_spending_pattern flags a category it was asked about exactly
\* when the category's prior-period spend is positive and its current-period
\* spend is more than 1.5 times that, and reports for it increase_pct, the
\* increase in percent of the prior spend to the nearest integer.
C25_AnomalyAboveFiftyPercent ==
    (/\ mode = "analysis" /\ tool_calls_log # <<>>
     /\ LastLogged(tool_calls_log).tool = "analyze_spending_pattern")
    => LET args == LastLogged(tool_calls_log).arguments
           n == Get(args, "comparison_days", DefaultDays)
           history == state["expense_history"]
       IN  /\ raised = ""
           /\ \A c \in {history[i]["category"] : i \in DOMAIN history} :
                 LET prior == SpentBetween(history, c, n, 2 * n)
                     current == SpentBetween(history, c, 0, n)
                     flags == {i \in DOMAIN result["anomalies"] :
                                  result["anomalies"][i]["category"] = c}
                 IN  /\ (flags # {}) <=> (/\ args["category"] \in {"all", c}
                                          /\ prior > 0
                                          /\ 2 * current > 3 * prior)
                     /\ \A i \in flags :
                           2 * Abs(result["anomalies"][i]["increase_pct"] * prior
                                     - 100 * (current - prior)) <= prior

\* C26: the tools_called of a refused complete_analysis is the number of
\* tools called before that call: 0 when it is the first call of the run.
C26_RefusalCountsEarlierCalls ==
    [][(/\ mode = "exec"
        /\ Len(tool_calls_log') = Len(tool_calls_log) + 1
        /\ LastLogged(tool_calls_log').tool = "complete_analysis"
        /\ "tools_called" \in DOMAIN result')
          => /\ "error" \in DOMAIN result'
             /\ result'["tools_called"] = Len(tool_calls_log)]_vars

\* C27: once complete_analysis has been accepted, no further tool is
\* executed in the run (the remaining tool calls of the same oracle batch
\* included) and no tool changes Session State, so that the tools_used
\* recorded at acceptance is the total_tool_calls of the returned run.
C27_AcceptedIsTerminal ==
    [][(mode = "react" /\ Get(state, "analysis_complete", FALSE) = TRUE)
          => /\ tool_calls_log' = tool_calls_log
             /\ tool_call_count' = tool_call_count
             /\ (pc' = "done" => Get(state', "tools_used", 0)
                                    = Get(state', "total_tool_calls", 0))]_vars

\* The advice of a run: the three fields of Session State the debate may write.
Advice(st) ==
    [k \in {"key_insight", "recommended_action", "confidence_score"} \cap DOMAIN st |-> st[k]]

\* C28: if every oracle request of the debate fails (the three advisors and
\* the synthesis), the key_insight, recommended_action and confidence_score
\* of the run after the debate phase are what they were before it.
C28_FailedDebateKeepsAdvice ==
    [][(/\ mode = "enhanced" /\ pc = "debate" /\ pc' # "debate"
        /\ debate'["failed"] = {"Conservative Advisor", "Growth Advisor",
                                "Practical Advisor", "synthesis"})
          => Advice(state') = Advice(state)]_vars

\* C29: in Enhanced mode, once an oracle failure of the execution phase is
\* recorded in agent_error, the run issues no further oracle request: no
\* reflection, no plan revision, no advisor and no synthesis request.
C29_NoOracleAfterFailure ==
    [][(mode = "enhanced" /\ Get(state, "agent_error", "") = "oracle failure")
          => /\ debate' = debate
             /\ reflections' = reflections
             /\ Get(state', "execution_plan", <<>>) = Get(state, "execution_plan", <<>>)]_vars

\* C30: in the Enhanced loop the plan revision check is made at every third
\* tool call, whatever the sizes of the oracle's batches: between two turns
\* the last check was made at the last multiple of 3 the tool call count
\* has reached.
C30_CheckedEveryThirdCall ==
    (mode = "enhanced" /\ pc = "loop" /\ "execution_plan" \in DOMAIN state)
        => last_revision_check = 3 * (tool_call_count \div 3)

\* C31: a refused complete_analysis does not end the ReAct loop: the refusal
\* is appended as the tool result of that call, the corrective user message
\* follows it, the loop's analysis_complete and the iteration counter are
\* left as they were and the run stays in the loop, where another oracle
\* turn is due while the ceiling is not reached; the iteration counter only
\* changes at an oracle turn, by exactly 1.
C31_RefusalKeepsLooping ==
    [][/\ (/\ mode = "react" /\ pc = "tools" /\ pending # <<>>
           /\ Head(pending).call.name = "complete_analysis"
           /\ Head(pending).call.arguments.ok
           /\ "error" \in DOMAIN result')
          => /\ turn_msgs' = turn_msgs \o <<ToolMsg(Head(pending).id, result'),
                                            UserMsg("Keep going! You need more analysis.")>>
             /\ analysis_complete' = analysis_complete
             /\ iteration' = iteration
             /\ raised' = ""
             /\ pc' = IF Tail(pending) = <<>> THEN "loop" ELSE "tools"
       /\ (mode = "react" /\ pc = "loop" /\ iteration < ReactMaxIterations
              /\ ~analysis_complete)
          => ENABLED ReactToolCalls
       /\ (mode = "react" /\ iteration' # iteration)
          => pc = "loop" /\ iteration' = iteration + 1]_vars

C31_TurnAfterRefusal ==
    /\ mode = "react" /\ pc = "tools" /\ ~analysis_complete
    /\ turn_msgs = <<AssistantMsg(pending)>>
    /\ tool_calls_log # <<>>
    /\ LastLogged(tool_calls_log).tool = "complete_analysis"
    /\ "error" \in DOMAIN result

\* C32: in an Enhanced run the debate runs at most once, only after the
\* execution loop has ended and only on a candidate recommendation; when it
\* runs it makes the three advisor requests in the order Conservative,
\* Growth, Practical and then exactly one synthesis request.
C32_DebateOnceInOrder ==
    [][(mode = "enhanced" /\ debate' # debate)
          => \/ /\ pc \in {"loop", "tools"} /\ pc' = "debate"
                /\ debate = NoDebate /\ debate'["recommendation"] # ""
                /\ debate'["perspectives"] = <<>> /\ ~debate'["synthesis_requested"]
             \/ /\ pc = "debate" /\ pc' \in {"save", "done"}
                /\ debate["perspectives"] = <<>> /\ ~debate["synthesis_requested"]
                /\ [i \in DOMAIN debate'["perspectives"] |->
                       debate'["perspectives"][i]["advisor"]] = DEBATE_PERSPECTIVES
                /\ debate'["synthesis_requested"]]_vars

\* The fields of Session State an accepted completion writes.
CompletionFields(st) ==
    [k \in {"safe_to_spend", "key_insight", "recommended_action", "confidence_score",
            "analysis_complete", "tools_used"} \cap DOMAIN st |-> st[k]]

\* C33: a complete_analysis call made when the tool-call minimum is met, with
\* a key_insight of fewer than 30 characters, returns an error and leaves
\* safe_to_spend, key_insight, recommended_action, confidence_score,
\* analysis_complete and tools_used of Session State as they were.
C33_ShortInsightRefused ==
    [][(/\ mode = "exec"
        /\ Len(tool_calls_log') = Len(tool_calls_log) + 1
        /\ LastLogged(tool_calls_log').tool = "complete_analysis"
        /\ tools_called_count' >= CompletionMinTools
        /\ Len(Get(LastLogged(tool_calls_log').arguments, "key_insight", ""))
              < MinInsightLength)
          => /\ "error" \in DOMAIN result'
             /\ "complete" \notin DOMAIN result'
             /\ raised' = ""
             /\ CompletionFields(state') = CompletionFields(state)]_vars

C33_RefusedForInsight ==
    /\ mode = "exec" /\ tools_called_count >= CompletionMinTools
    /\ LastLogged(tool_calls_log).tool = "complete_analysis"
    /\ LastLogged(tool_calls_log).arguments["key_insight"] = ShortInsight
    /\ "error" \in DOMAIN result /\ "example" \in DOMAIN result

\* The calls of a log that write bucket balances, in call order.
IsBucketWrite(entry) == entry.tool \in {"allocate_to_bucket", "update_bucket_balance_persistent"}
IsAllocation(entry) == entry.tool = "allocate_to_bucket"
IsPersistentUpdate(entry) == entry.tool = "update_bucket_balance_persistent"
\* The sum of the amounts of the bucket writes of a log on bucket b.
RECURSIVE AmountsOn(_, _)
AmountsOn(log, b) ==
    IF log = <<>> THEN 0
    ELSE AmountsOn(SubSeq(log, 1, Len(log) - 1), b)
           + (IF IsBucketWrite(LastLogged(log))
                 /\ Get(LastLogged(log).arguments, "bucket_name", "None") = b
              THEN Get(LastLogged(log).arguments, "amount", 0) ELSE 0)
BucketAndAmount(calls) ==
    [i \in DOMAIN calls |-> <<Get(calls[i].arguments, "bucket_name", "None"),
                              Get(calls[i].arguments, "amount", 0)>>]

\* C34: after any sequence of tool calls each in-memory bucket balance is its
\* balance at the start plus the sum of the amounts of the allocate_to_bucket
\* and update_bucket_balance_persistent calls made on that bucket, a repeated
\* call counted each time, and allocations_made and bucket_changes hold one
\* entry per such call, in call order.
C34_BalancesAreSums ==
    mode = "buckets"
    => /\ \A b \in {"emergency", "flex", "None"} :
             Get(state["bucket_balances"], b, 0)
                = Get(InitialBuckets, b, 0) + AmountsOn(tool_calls_log, b)
       /\ LET made == Get(state, "allocations_made", <<>>)
          IN  [i \in DOMAIN made |-> <<made[i]["bucket"], made[i]["amount"]>>]
                 = BucketAndAmount(SelectSeq(tool_calls_log, IsAllocation))
       /\ LET changes == Get(state, "bucket_changes", <<>>)
          IN  [i \in DOMAIN changes |-> <<changes[i]["bucket"], changes[i]["change"]>>]
                 = BucketAndAmount(SelectSeq(tool_calls_log, IsPersistentUpdate))

C34_SameCallTwice ==
    /\ mode = "buckets" /\ Len(tool_calls_log) = 3
    /\ tool_calls_log[1].tool = "allocate_to_bucket"
    /\ tool_calls_log[1].arguments = tool_calls_log[3].arguments
    /\ tool_calls_log[3].tool = "allocate_to_bucket"
    /\ tool_calls_log[2].tool = "update_bucket_balance_persistent"
    /\ state["bucket_balances"]["emergency"] = 800
    /\ Len(state["allocations_made"]) = 2

\* The tools that read and compute.
ReadOnlyTools ==
    {"get_bucket_balances", "get_upcoming_obligations", "get_income_history",
     "get_expense_history", "get_goals_progress", "get_past_decisions",
     "calculate_shortfall", "analyze_spending_pattern", "calculate_goal_trajectory",
     "simulate_scenario"}

\* C35: a call of a read-only or analytical tool leaves Session State (and
\* the collections) as it was, whatever its arguments and whether it returns
\* or raises; the call log grows by the call and the call counter by 1.
C35_ReadOnlyToolsKeepState ==
    [][(/\ mode = "analysis"
        /\ Len(tool_calls_log') = Len(tool_calls_log) + 1
        /\ LastLogged(tool_calls_log').tool \in ReadOnlyTools)
          => /\ state' = state
             /\ db' = db
             /\ tools_called_count' = tools_called_count + 1
             /\ SubSeq(tool_calls_log', 1, Len(tool_calls_log)) = tool_calls_log]_vars

C35_ScenarioProjected ==
    /\ mode = "analysis" /\ Len(tool_calls_log) = 2
    /\ tool_calls_log[1].tool = "get_expense_history"
    /\ LastLogged(tool_calls_log).tool = "simulate_scenario"
    /\ Get(result, "projected_balance", 0) = 1500
    /\ state \in AnalysisStates

\* C36: in the conversation the next oracle request carries, the assistant
\* message of a turn with k tool calls is followed at once by k tool
\* messages, one per tool_call_id in the order requested, with no message of
\* another role between them, in the ReAct and in the Enhanced loop.
C36_ToolResultsFollowAssistant ==
    (/\ mode \in {"react", "enhanced"} /\ pc = "loop"
     /\ turn_msgs # <<>> /\ turn_msgs[1]["role"] = "assistant")
    => /\ Len(turn_msgs) >= 1 + turn_msgs[1]["tool_calls"]
       /\ \A i \in 1..turn_msgs[1]["tool_calls"] :
             /\ turn_msgs[1 + i]["role"] = "tool"
             /\ turn_msgs[1 + i]["tool_call_id"] = i

\* C37: the summary of a returned ReAct or Enhanced run reports
\* analysis_complete true only if the loop ended successfully (an accepted
\* complete_analysis, or a final message with the tool minimum met): a run
\* stopped by the iteration ceiling or by a failure is not reported complete.
C37_CompleteOnlyOnSuccess ==
    (mode \in {"react", "enhanced"} /\ pc = "done" /\ raised = "")
    => (run_daily_summary(state)["analysis_complete"]
          => analysis_complete /\ "agent_error" \notin DOMAIN state)

\* C38: when a ReAct or Enhanced run has left its loop, total_tool_calls is
\* the length of tool_calls_log and the executor's tools_called_count, and
\* the summary reports that number, whether the run ended by an accepted
\* completion, at the ceiling, or by an abort in the middle of a batch.
C38_ToolCallsCounted ==
    (mode \in {"react", "enhanced"} /\ LoopLeft)
    => /\ state["total_tool_calls"] = Len(state["tool_calls_log"])
       /\ state["total_tool_calls"] = tools_called_count
       /\ state["tool_calls_log"] = tool_calls_log
       /\ run_daily_summary(state)["total_tool_calls"] = tools_called_count

C38_AbortedInBatch ==
    /\ mode = "react" /\ pc = "done"
    /\ Get(state, "agent_error", "") = "TypeError"
    /\ Len(pending) = 2
    /\ state["total_tool_calls"] = 2
    /\ Len(tool_calls_log) = 2

-----------------------------------------------------------------------------
\* What the requests took out of the collection: the balance lost over all
\* the Bucket documents.
RECURSIVE BalanceLost(_, _)
BalanceLost(before, after) ==
    IF before = <<>> THEN 0
    ELSE Head(before).current_balance - Head(after).current_balance
         + BalanceLost(Tail(before), Tail(after))

RECURSIVE AmountsDeducted(_)
AmountsDeducted(deductions) ==
    IF deductions = <<>> THEN 0
    ELSE Head(deductions).amount_deducted + AmountsDeducted(Tail(deductions))

\* The request overspends: its amount is above the balance of the buckets
\* that are not protected.
Overspends(buckets, expense_data) ==
    expense_data.amount >
        SumBalances(buckets, {buckets[i].name : i \in DOMAIN buckets} \ PROTECTED_BUCKETS)

\* C39: add_expense never deducts from rent, emi or tax, even when one of
\* them is named as the primary bucket; it never drives a bucket balance
\* below zero; the amounts deducted plus the reported uncovered amount equal
\* the expense amount; and an overspending expense submitted without force
\* changes no bucket balance and records no expense.
C39_CascadeSparesProtected ==
    [][(mode = "expenses" /\ runs' # runs) =>
        LET expense_data == runs'[Len(runs')]
            before == db.buckets
            after == db'.buckets
        IN  /\ Len(after) = Len(before)
            /\ \A i \in DOMAIN before :
                  /\ after[i].name = before[i].name
                  /\ before[i].name \in PROTECTED_BUCKETS => after[i] = before[i]
                  /\ after[i].current_balance <= before[i].current_balance
                  /\ after[i].current_balance < 0 => after[i] = before[i]
            /\ (raised' = "" /\ result'["success"]) =>
                  /\ \A k \in DOMAIN result'["deductions"] :
                        result'["deductions"][k].bucket_name \notin PROTECTED_BUCKETS
                  /\ AmountsDeducted(result'["deductions"]) + result'["uncovered_amount"]
                        = expense_data.amount
                  /\ BalanceLost(before, after) + result'["uncovered_amount"]
                        = expense_data.amount
                  /\ result'["total_deducted"] = BalanceLost(before, after)
                  /\ Len(db'.expenses) = Len(db.expenses) + 1
            /\ (Overspends(before, expense_data) /\ ~expense_data.force) =>
                  /\ db' = db
                  /\ raised' = "" => ~result'["success"]
            /\ raised' # "" => db' = db
       ]_vars

\* A forced overspending expense that names rent as its bucket was taken from
\* two other buckets, and part of it stayed uncovered while rent held money.
C39_ForcedPastProtected ==
    /\ mode = "expenses" /\ runs # <<>> /\ raised = ""
    /\ runs[Len(runs)].bucket_name = "rent" /\ runs[Len(runs)].force
    /\ result["success"]
    /\ Len(result["deductions"]) >= 2
    /\ result["uncovered_amount"] > 0
    /\ \E i \in DOMAIN db.buckets :
          db.buckets[i].name = "rent" /\ db.buckets[i].current_balance > 0

-----------------------------------------------------------------------------
\* C40: after any sequence of accepted advance requests and repayments of one
\* user, the total outstanding amount (the sum of total_repayable -
\* amount_repaid over the active advances) is at most the cap min(40% of
\* weekly income, 5000), and the user has at most 3 active advances.
C40_OutstandingWithinCap ==
    mode = "advances" =>
        /\ OutstandingOf(db.advances, get_active_advances(db))
              <= calculate_available_advance(db).max_total_allowed
        /\ Cardinality(get_active_advances(db)) <= MAX_ACTIVE_ADVANCES
====
